---- MODULE Spec2Model ----
(***************************************************************************)
(* Subgroup feature-attribution engine of the airline dashboard:           *)
(* modules/ServiceFactor.py (average ratings and native random-forest      *)
(* importance) and modules/Shap.py (SHAP summary, waterfall, insights).    *)
(*                                                                         *)
(* Numbers.  Importances, accuracies and ratios are fixed-point integers   *)
(* in millionths (0.15 is 150000).  A mean over the n test rows is kept as *)
(* the column sum together with n, so that comparisons of means are        *)
(* comparisons of sums.                                                    *)
(*                                                                         *)
(* Arrays.  A numpy array is [shape, data] with data in row-major order.   *)
(* A python value that may be a list of arrays, an array or None is a      *)
(* record [kind, elems, shape, data].                                      *)
(***************************************************************************)
EXTENDS Integers, Sequences, FiniteSets, TLC

\* ------------------------------------------------------------ bounds

\* number of service attributes of a request
MaxAttrs == 2
\* largest number of test rows of a raw SHAP output
MaxRows == 2
\* longest per-class list the explainer returns
MaxList == 3

\* ------------------------------------------------------------ helpers

Abs(x) == IF x < 0 THEN -x ELSE x

Min(a, b) == IF a <= b THEN a ELSE b

RECURSIVE Prod(_)
Prod(s) == IF s = <<>> THEN 1 ELSE Head(s) * Prod(Tail(s))

RECURSIVE Concat(_)
Concat(ss) == IF ss = <<>> THEN <<>> ELSE Head(ss) \o Concat(Tail(ss))

Range(s) == {s[i] : i \in 1..Len(s)}

\* python `x in list`
InList(x, s) == \E i \in 1..Len(s) : s[i] = x

\* ------------------------------------------------------------ numpy values

None == [kind |-> "None", elems |-> <<>>, shape |-> <<>>, data |-> <<>>]

NdArray(shape, data) ==
    [kind |-> "ndarray", elems |-> <<>>, shape |-> shape, data |-> data]

PyList(elems) == [kind |-> "list", elems |-> elems, shape |-> <<>>, data |-> <<>>]

ndim(a) == Len(a.shape)

\* np.array(list_of_arrays): the arrays stacked along a new first axis
np_array(l) ==
    IF l.kind # "list" THEN l
    ELSE IF l.elems = <<>> THEN NdArray(<<0>>, <<>>)
    ELSE NdArray(<<Len(l.elems)>> \o l.elems[1].shape,
                 Concat([i \in 1..Len(l.elems) |-> l.elems[i].data]))

\* a.reshape(1, -1) of a 1-D array, a.reshape(1, 1) of a 0-D array
reshape_row(a) ==
    IF ndim(a) = 0 THEN NdArray(<<1, 1>>, a.data)
    ELSE NdArray(<<1, a.shape[1]>>, a.data)

\* a[:, -k:]: the cut that keeps the last k columns
slice_last_cols(a, k) ==
    LET d0 == a.shape[1]
        d1 == a.shape[2]
        rest == SubSeq(a.shape, 3, Len(a.shape))
        R == Prod(rest)
        k1 == Min(k, d1)
        idx == [j \in 1..(d0 * k1 * R) |->
                   LET z == j - 1
                       i0 == z \div (k1 * R)
                       i1 == (z % (k1 * R)) \div R
                       r == z % R
                   IN i0 * d1 * R + (i1 + d1 - k1) * R + r + 1]
    IN NdArray(<<d0, k1>> \o rest, [j \in 1..(d0 * k1 * R) |-> a.data[idx[j]]])

\* a[:, :k] of an array with at least two axes
slice_cols(a, k) ==
    LET d0 == a.shape[1]
        d1 == a.shape[2]
        rest == SubSeq(a.shape, 3, Len(a.shape))
        R == Prod(rest)
        k1 == Min(k, d1)
        idx == [j \in 1..(d0 * k1 * R) |->
                   LET z == j - 1
                       i0 == z \div (k1 * R)
                       i1 == (z % (k1 * R)) \div R
                       r == z % R
                   IN i0 * d1 * R + i1 * R + r + 1]
    IN NdArray(<<d0, k1>> \o rest, [j \in 1..(d0 * k1 * R) |-> a.data[idx[j]]])

RECURSIVE SumTo(_, _)
SumTo(f, n) == IF n = 0 THEN 0 ELSE f[n] + SumTo(f, n - 1)

\* the reduction that sums the signed values
signed_sum_axis0(a) ==
    LET d0 == a.shape[1]
        inner == Prod(Tail(a.shape))
    IN [j \in 1..inner |->
           SumTo([i \in 1..d0 |-> a.data[(i - 1) * inner + j]], d0)]

\* np.abs(a).mean(axis=0).flatten(): per position of the trailing axes the sum
\* of the absolute values over the first axis (the mean is this sum over
\* a.shape[1])
abs_mean_axis0(a) ==
    LET d0 == a.shape[1]
        inner == Prod(Tail(a.shape))
    IN [j \in 1..inner |->
           SumTo([i \in 1..d0 |-> Abs(a.data[(i - 1) * inner + j])], d0)]

\* a.mean(axis=0).flatten(), as column sums
mean_axis0(a) ==
    LET d0 == a.shape[1]
        inner == Prod(Tail(a.shape))
    IN [j \in 1..inner |->
           SumTo([i \in 1..d0 |-> a.data[(i - 1) * inner + j]], d0)]

\* ------------------------------------------------------------ inputs

\* the service-attribute names a request may list, in list order
AllAttrs == <<"Inflight wifi service", "Departure/Arrival time convenient",
              "Ease of Online booking", "Gate location", "Food and drink">>

\* a service-attribute name that is no column of the dataset
MissingAttr == "Seat pitch"

\* the feature lists a request may pass: the leading attributes, or a list
\* that names a column the dataset does not have
AttrLists ==
    {SubSeq(AllAttrs, 1, k) : k \in {0, MaxAttrs}} \cup {<<MissingAttr, AllAttrs[1]>>}

\* attr in subgroup_data.columns
has_column(attr) == \E i \in 1..Len(AllAttrs) : AllAttrs[i] = attr

\* subgroup_data[service_attributes] finds every listed column
has_columns(attrs) == \A i \in 1..Len(attrs) : has_column(attrs[i])

\* the position of a column among the attribute columns
column_index(attr) == CHOOSE i \in 1..Len(AllAttrs) : AllAttrs[i] = attr

\* cell values of the raw SHAP outputs, read cyclically from a seed
CellValues == <<0, 0, 0, 0, 5, -4, 4, 3, 5, -2, 5, 1>>

Cell(seed, pos) == CellValues[((seed + pos) % Len(CellValues)) + 1]

GenArray(shape, seed) ==
    NdArray(shape, [i \in 1..Prod(shape) |-> Cell(seed, i - 1)])

Seeds == 0..(Len(CellValues) - 1)

FewSeeds == {4, 5}

\* column counts the explainer may produce for k requested features
ColCounts(k) == 0..(2 * k + 1)

\* held-out accuracies, read cyclically
AccuracyValues == <<850000, 849999, 750000, 749999>>

Outcome(rawv, s) ==
    [throws |-> FALSE, raw |-> rawv,
     accuracy |-> AccuracyValues[(s % Len(AccuracyValues)) + 1]]

\* what rf.fit, explainer.shap_values(X_test) and rf.score give: the fit or
\* the explainer throws, or the explainer returns a list of per-class arrays
\* or one array of 0 to 3 axes (the shape differs between library versions)
ExplainerOutcomes(k) ==
    {[throws |-> TRUE, raw |-> None, accuracy |-> 0]}
    \cup {Outcome(GenArray(<<1, c>>, s), s) : c \in ColCounts(k), s \in Seeds}
    \cup {Outcome(GenArray(<<n, c>>, s), s) :
            n \in 1..MaxRows, c \in ColCounts(k), s \in FewSeeds}
    \cup {Outcome(GenArray(<<c>>, s), s) : c \in ColCounts(k), s \in FewSeeds}
    \cup {Outcome(GenArray(<<>>, 4), 0)}
    \cup {Outcome(GenArray(<<n, c, 2>>, 4), 1) : n \in 1..MaxRows, c \in ColCounts(k)}
    \cup {Outcome(PyList([l \in 1..L |-> GenArray(<<n, c>>, 4 + 3 * l)]), L) :
            L \in 0..MaxList, n \in 1..MaxRows, c \in ColCounts(k)}

\* ------------------------------------------------------------ Shap.py

Ok(v) == [ok |-> TRUE, v |-> v]

Raised == [ok |-> FALSE, v |-> None]

\* the list handling that takes the first element of a pair
train_list_step_first_of_pair(raw) ==
    IF raw.kind = "list"
    THEN IF Len(raw.elems) \in {1, 2} THEN raw.elems[1] ELSE raw
    ELSE raw

\* train_model_and_calculate_shap, list handling of the raw output
train_list_step(raw) ==
    IF raw.kind = "list"
    THEN IF Len(raw.elems) = 2 THEN raw.elems[2]
         ELSE IF Len(raw.elems) = 1 THEN raw.elems[1]
         ELSE raw
    ELSE raw

\* train_model_and_calculate_shap, shape handling of an ndarray; a 0-D array
\* has no shape[1] and the IndexError is caught by the handler
train_shape_step(a, expected_features) ==
    IF a.kind # "ndarray" THEN Ok(a)
    ELSE LET b == IF ndim(a) = 1 THEN reshape_row(a) ELSE a
         IN IF ndim(b) < 2 THEN Raised
            ELSE IF b.shape[2] = expected_features * 2
                 THEN Ok(slice_cols(b, expected_features))
                 ELSE Ok(b)

\* the value on which create_shap_summary_chart applies its shape checks
summary_list_step(shap_values) ==
    IF shap_values.kind = "list" THEN np_array(shap_values) ELSE shap_values

\* the value on which generate_shap_insights and create_shap_waterfall_chart
\* apply their shape checks
insights_list_step(shap_values) ==
    IF shap_values.kind = "list"
    THEN IF Len(shap_values.elems) = 2 THEN shap_values.elems[2]
         ELSE IF Len(shap_values.elems) = 1 THEN shap_values.elems[1]
         ELSE np_array(shap_values)
    ELSE shap_values

\* create_shap_summary_chart: at least two axes, then the doubled-width cut
summary_shape_step(a, expected_features) ==
    LET b == IF ndim(a) <= 1 THEN reshape_row(a) ELSE a
    IN IF b.shape[2] = expected_features * 2
       THEN slice_cols(b, expected_features)
       ELSE b

\* ------------------------------------------------------------ dataset

\* a missing group value (float nan); it equals nothing, itself included
NaN == "nan"

\* python None as a requested or resolved subgroup
NoSubgroup == "None"

\* group values in the order python's sorted() gives them
AlphaOrder == <<"Business", "Eco", "Premium">>

\* group values the rows of a dataset carry
RowGroups == {"Business", "Eco", NaN}

\* group values a request may ask for
Requested == {NoSubgroup, "Business", "Eco", "Premium"}

\* most group values a dataset holds rows of
MaxGroups == 2

\* (rows, satisfied rows) of the rows of one group value
Profiles == << <<29, 10>>, <<30, 10>>, <<50, 0>>, <<50, 50>>,
               <<49, 20>>, <<50, 20>>, <<90, 40>>, <<30, 1>>, <<50, 49>> >>

\* per-row ratings (0..5), read cyclically
RatingValues == <<3, 3, 4, 2, 5, 1, 4>>

\* the rows of one group value, run-length encoded: n rows in a row, nsat of
\* them satisfied, ratings[i] the sum of the i-th service attribute over them
Block(g, idx) ==
    LET prof == Profiles[(idx % Len(Profiles)) + 1]
    IN [g |-> g, n |-> prof[1], nsat |-> prof[2],
        ratings |-> [i \in 1..Len(AllAttrs) |->
                       prof[1] * RatingValues[((idx + i) % Len(RatingValues)) + 1]]]

EmptyBlock == [g |-> NoSubgroup, n |-> 0, nsat |-> 0,
               ratings |-> [i \in 1..Len(AllAttrs) |-> 0]]

\* sequences of distinct group values, in first-seen order
GroupOrders ==
    {o \in UNION {[1..m -> RowGroups] : m \in 0..MaxGroups} :
        \A i, j \in 1..Len(o) : i # j => o[i] # o[j]}

CategoryOrders == {<<"Business", "Eco">>, <<"Eco", "Business">>}

\* the datasets: the grouping column may be absent; it is a plain column or a
\* categorical one with an explicit category order
Datasets ==
    {[has_group_col |-> FALSE, categorical |-> FALSE, categories |-> <<>>,
      blocks |-> <<[g |-> NaN, n |-> 60, nsat |-> 30,
                    ratings |-> [i \in 1..Len(AllAttrs) |-> 180]]>>]}
    \cup {[has_group_col |-> TRUE, categorical |-> FALSE, categories |-> <<>>,
           blocks |-> [i \in 1..Len(o) |-> Block(o[i], p + i)]] :
             o \in GroupOrders, p \in 0..(Len(Profiles) - 1)}
    \cup {[has_group_col |-> TRUE, categorical |-> TRUE, categories |-> c,
           blocks |-> [i \in 1..Len(o) |-> Block(o[i], p + i)]] :
             o \in GroupOrders, p \in 0..(Len(Profiles) - 1), c \in CategoryOrders}

\* df[group_col].unique().tolist(): first-seen order, nan included
unique(d) == [i \in 1..Len(d.blocks) |-> d.blocks[i].g]

\* the group values in alphabetical order
sf_groups_alphabetical(d) ==
    SelectSeq(AlphaOrder,
              LAMBDA g : InList(g, IF d.categorical THEN d.categories ELSE unique(d)))

\* the ordered group values of ServiceFactor.py
sf_groups(d) == IF d.categorical THEN d.categories ELSE unique(d)

\* a row filter that hands over the rows of the first group value
filter_rows_first_group(d, selected) ==
    IF d.blocks # <<>> THEN d.blocks[1] ELSE EmptyBlock

\* a row filter under which a missing value equals a missing value
filter_rows_nan_equal(d, selected) ==
    IF \E i \in 1..Len(d.blocks) : d.blocks[i].g = selected
    THEN d.blocks[CHOOSE i \in 1..Len(d.blocks) : d.blocks[i].g = selected]
    ELSE EmptyBlock

\* df[df[group_col] == selected_subgroup]: nan compares unequal to everything
filter_rows(d, selected) ==
    IF selected # NaN /\ \E i \in 1..Len(d.blocks) : d.blocks[i].g = selected
    THEN d.blocks[CHOOSE i \in 1..Len(d.blocks) : d.blocks[i].g = selected]
    ELSE EmptyBlock

\* len(y.unique()) of the binarized satisfaction label
y_unique(sub) ==
    (IF sub.nsat > 0 THEN 1 ELSE 0) + (IF sub.nsat < sub.n THEN 1 ELSE 0)

\* ------------------------------------------------------------ ranking

Item(name, value) == [name |-> name, value |-> value]

\* the insertion that puts x in front of the items equal to it
RECURSIVE InsertDescBeforeEqual(_, _)
InsertDescBeforeEqual(x, s) ==
    IF s = <<>> THEN <<x>>
    ELSE IF Head(s).value > x.value
         THEN <<Head(s)>> \o InsertDescBeforeEqual(x, Tail(s))
         ELSE <<x>> \o s

\* insert x behind every item that is at least as large
RECURSIVE InsertDesc(_, _)
InsertDesc(x, s) ==
    IF s = <<>> THEN <<x>>
    ELSE IF Head(s).value >= x.value THEN <<Head(s)>> \o InsertDesc(x, Tail(s))
    ELSE <<x>> \o s

\* sorted(items, key=lambda x: x[1], reverse=True): descending and stable
RECURSIVE sorted_desc(_)
sorted_desc(items) ==
    IF items = <<>> THEN <<>>
    ELSE InsertDesc(items[Len(items)], sorted_desc(SubSeq(items, 1, Len(items) - 1)))

Names(items) == [i \in 1..Len(items) |-> items[i].name]

Values(items) == [i \in 1..Len(items) |-> items[i].value]

RECURSIVE MaxOf(_)
MaxOf(s) == IF Len(s) = 1 THEN s[1]
            ELSE LET m == MaxOf(Tail(s)) IN IF s[1] >= m THEN s[1] ELSE m

\* the colour bands, lowest first
Bands == <<"#81C784", "#FFD54F", "#FFA726", "#FF6B6B">>

BandRank(c) == CHOOSE i \in 1..Len(Bands) : Bands[i] = c

\* utils.get_display_name
get_display_name(col) ==
    CASE col = "Departure/Arrival time convenient" -> "DEP/ARR time convenient"
      [] col = "Ease of Online booking" -> "Online booking"
      [] col = "Inflight wifi service" -> "Inflight wifi"
      [] OTHER -> col

\* f[:25] + "..." if len(f) > 25 else f
truncate_25(f) ==
    IF f = "Departure/Arrival time convenient" THEN "Departure/Arrival time co..."
    ELSE f

\* ------------------------------------------------------------ ServiceFactor.py

\* one in fixed point
One == 1000 * 1000

VeryHighImportance == 150000
HighImportance == 100000
MediumImportance == 50000

\* the colour of one importance with the thresholds compared by >
rf_color_exclusive(importance) ==
    IF importance > VeryHighImportance THEN "#FF6B6B"
    ELSE IF importance > HighImportance THEN "#FFA726"
    ELSE IF importance > MediumImportance THEN "#FFD54F"
    ELSE "#81C784"

\* create_rf_importance_chart: colour of one importance
rf_color(importance) ==
    IF importance >= VeryHighImportance THEN "#FF6B6B"
    ELSE IF importance >= HighImportance THEN "#FFA726"
    ELSE IF importance >= MediumImportance THEN "#FFD54F"
    ELSE "#81C784"

MinSamplesRF == 30

\* the check with the row count compared by <=
rf_insufficient_off_by_one(sub) == sub.n <= MinSamplesRF \/ y_unique(sub) < 2

\* create_rf_importance_chart / generate_rf_insights: the sufficiency check
rf_insufficient(sub) == sub.n < MinSamplesRF \/ y_unique(sub) < 2

\* create_average_ratings_chart: colour of a mean rating sum / n
rating_color(sum, n) ==
    IF sum >= 4 * n THEN "#4CAF50"
    ELSE IF sum >= 3 * n THEN "#FFC107"
    ELSE IF sum >= 2 * n THEN "#FF9800"
    ELSE "#F44336"

ExcellentAccuracy == 850000
GoodAccuracy == 750000

\* the label with the thresholds compared by >
model_quality_exclusive(accuracy) ==
    IF accuracy > ExcellentAccuracy THEN "Excellent"
    ELSE IF accuracy > GoodAccuracy THEN "Good"
    ELSE "Fair"

\* the model-quality label of an accuracy
model_quality(accuracy) ==
    IF accuracy >= ExcellentAccuracy THEN "Excellent"
    ELSE IF accuracy >= GoodAccuracy THEN "Good"
    ELSE "Fair"

\* the strategy label of a high-impact count
strategy(count) ==
    IF count <= 3 THEN "focus"
    ELSE IF count <= 6 THEN "balanced"
    ELSE "broad"

\* rf.feature_importances_ values, read cyclically
ImportanceValues == <<150000, 149999, 100000, 99999, 50000, 49999,
                      0, 500000, 500000, 0>>

\* k importances that sum to one
Importances(k, s) ==
    LET lead == [i \in 1..(k - 1) |->
                   ImportanceValues[((s + i - 1) % Len(ImportanceValues)) + 1]]
    IN lead \o <<One - SumTo(lead, k - 1)>>

\* the outcomes of a fit are numbered: -1 throws, the last is all zero
FitSeeds == (-1)..Len(ImportanceValues)

\* outcome s of fitting and scoring the forest on k features
FitOutcomeOf(k, s) ==
    IF s < 0 THEN [throws |-> TRUE, importances |-> <<>>, accuracy |-> 0]
    ELSE IF s < Len(ImportanceValues)
    THEN [throws |-> FALSE, importances |-> Importances(k, s),
          accuracy |-> AccuracyValues[(s % Len(AccuracyValues)) + 1]]
    ELSE [throws |-> FALSE, importances |-> [i \in 1..k |-> 0], accuracy |-> 500000]

\* what fitting and scoring the forest gives: it throws, or it yields the
\* importances (summing to one, or all zero for a forest of stumps) and the
\* held-out accuracy
FitOutcomes(k) == {FitOutcomeOf(k, s) : s \in FitSeeds}

NoFit == [throws |-> FALSE, importances |-> <<>>, accuracy |-> 0]

\* train_test_split(..., stratify=y) raises ValueError when a class has fewer
\* than two members
stratify_fails(sub) == Min(sub.nsat, sub.n - sub.nsat) < 2

RandomState == 42
TestPercent == 30

\* train_test_split(X, y, test_size=0.3, random_state=42[, stratify=y]): the
\* test part is ceil(0.3 * n) rows
train_test_split(sub, stratify) ==
    [stratify |-> stratify, random_state |-> RandomState, test_size |-> TestPercent,
     raised |-> stratify /\ stratify_fails(sub),
     n_test |-> (TestPercent * sub.n + 99) \div 100,
     n_train |-> sub.n - (TestPercent * sub.n + 99) \div 100]

\* the splits of a training that starts with the plain split when the
\* stratified one cannot succeed
split_attempts_plain_first(sub) ==
    IF stratify_fails(sub) THEN <<train_test_split(sub, FALSE)>>
    ELSE <<train_test_split(sub, TRUE)>>

\* the splits of one training: the stratified one, then the plain one when
\* the stratified one raised ValueError
split_attempts(sub) ==
    LET first == train_test_split(sub, TRUE)
    IN IF first.raised THEN <<first, train_test_split(sub, FALSE)>>
       ELSE <<first>>

split_events(sub) ==
    [i \in 1..Len(split_attempts(sub)) |->
        IF split_attempts(sub)[i].stratify THEN "split_stratified" ELSE "split_plain"]

\* ------------------------------------------------------------ state

VARIABLES
    df,                 \* the dataset every request reads
    installed,          \* the importable libraries among sklearn and shap
    pc,                 \* where the current request stands
    req,                \* the call: entry point and arguments
    selected_subgroup,  \* the resolved group value
    subgroup_data,      \* the rows of the resolved group
    fit,                \* what fitting the forest gave
    raw,                \* explainer.shap_values(X_test) as returned
    train_checked,      \* the value the trainer's shape checks were applied to
    shap_values,        \* the SHAP values the trainer hands on
    checked,            \* the value the consumer's shape checks were applied to
    feature_importance, \* the attribution: items in insertion order
    result,             \* what the entry point returned
    feature_importance_results, \* SubgroupRFAnalyzer: importances per subgroup
    accuracy_results,   \* SubgroupRFAnalyzer: accuracy per subgroup
    trace,              \* the steps the current request has run, in order
    splits,             \* the train_test_split calls of the current request
    stored_shap_values, \* SHAPAnalyzer: self.shap_values, self.explainers per subgroup
    dash,               \* the frame of create_shap_analysis_for_dashboard
    answers,            \* what the libraries returned so far, by their arguments
    earlier,            \* the first request of a session and what it returned
    other               \* the concurrent request while it is not scheduled

vars == <<df, installed, pc, req, selected_subgroup, subgroup_data, fit, raw,
          train_checked, shap_values, checked, feature_importance, result,
          feature_importance_results, accuracy_results, trace, splits,
          stored_shap_values, dash, answers, earlier, other>>

\* the dictionaries of a SubgroupRFAnalyzer
Analyzer == <<feature_importance_results, accuracy_results>>

\* what a step of one request leaves alone unless it says otherwise
Kept == <<stored_shap_values, dash, answers, earlier, other>>

NoReq == [entry |-> "none", service_attributes |-> <<>>,
          selected_subgroup |-> NoSubgroup, chart_type |-> "none"]

NoResult == [kind |-> "none", text |-> ""]

\* no dashboard call of the SHAP module is under way
NoDash == [stage |-> "none", chart_type |-> "none", chart |-> NoResult, req |-> NoReq]

\* no call of the session has returned yet
NoEarlier == [calls |-> 0, req |-> NoReq, result |-> NoResult, between_failed |-> FALSE]

NoOther == [pc |-> "none"]

Placeholder(text) == [kind |-> "placeholder", text |-> text]

\* an exception that leaves the entry point
Raise(text) == [kind |-> "raised", text |-> text]

SFEntries == {"create_service_factors_chart", "generate_service_insights"}

ShapEntries == {"create_shap_summary_chart", "create_shap_waterfall_chart",
                "generate_shap_insights"}

ChartTypes == {"average", "rf_importance", "combined"}

Init ==
    /\ df \in Datasets
    /\ installed \in {{"sklearn", "shap"}, {"sklearn"}, {}}
    /\ pc = "idle"
    /\ req = NoReq
    /\ selected_subgroup = NoSubgroup
    /\ subgroup_data = EmptyBlock
    /\ fit = NoFit
    /\ raw = None
    /\ train_checked = None
    /\ shap_values = None
    /\ checked = None
    /\ feature_importance = <<>>
    /\ result = NoResult
    /\ feature_importance_results = <<>>
    /\ accuracy_results = <<>>
    /\ trace = <<>>
    /\ splits = <<>>
    /\ stored_shap_values = <<>>
    /\ dash = NoDash
    /\ answers = <<>>
    /\ earlier = NoEarlier
    /\ other = NoOther

Locals == <<selected_subgroup, subgroup_data, fit, raw, train_checked,
            shap_values, checked, feature_importance>>

\* a forest whose random_state is left unset draws fresh entropy on every
\* call
random_state_unset(call) == call

\* RandomForestClassifier(..., random_state=42); call numbers the library
\* calls of the session
random_state(call) == RandomState

\* the arguments a fit and its explanation depend on: the trainer, the rows,
\* the feature list and the seed
fit_arguments(trainer, data, attrs, call) ==
    [trainer |-> trainer, data |-> data, attrs |-> attrs,
     random_state |-> random_state(call)]

\* the library was called with these arguments before
Answered(given, arguments) ==
    \E i \in 1..Len(given) : given[i].arguments = arguments

\* what it returned then
AnswerOf(given, arguments) ==
    given[CHOOSE i \in 1..Len(given) : given[i].arguments = arguments].outcome

\* scikit-learn and shap compute a function of their arguments, the seed
\* included: called again with the same arguments they return the same
same_answer(given, arguments, outcome) ==
    Answered(given, arguments) => outcome = AnswerOf(given, arguments)

\* the answers after one more call
with_answer(given, arguments, outcome) ==
    IF Answered(given, arguments) THEN given
    ELSE Append(given, [arguments |-> arguments, outcome |-> outcome])

\* an analyzer that records the outcome of every analysis, None included
store_shap_always(stored, subgroup, values) ==
    SelectSeq(stored, LAMBDA e : e.subgroup # subgroup)
        \o <<[subgroup |-> subgroup, shap_values |-> values]>>

\* analyze_subgroup_shap: it returns before the two assignments when the
\* trainer gave None; otherwise self.shap_values[selected_subgroup] =
\* shap_values and self.explainers[selected_subgroup] = explainer
store_shap(stored, subgroup, values) ==
    IF values = None THEN stored
    ELSE SelectSeq(stored, LAMBDA e : e.subgroup # subgroup)
            \o <<[subgroup |-> subgroup, shap_values |-> values]>>

\* the caller invokes an entry point of ServiceFactor.py
CallServiceFactor ==
    /\ pc = "idle"
    /\ \E e \in SFEntries, attrs \in AttrLists, sel \in Requested, ct \in ChartTypes :
          req' = [entry |-> e, service_attributes |-> attrs,
                  selected_subgroup |-> sel, chart_type |-> ct]
    /\ pc' = "sf_selector"
    /\ result' = NoResult
    /\ splits' = <<>>
    /\ trace' = <<>>
    /\ UNCHANGED <<df, installed, Kept, Analyzer, Locals>>

\* the fallback to the first group of create_service_factors_chart and
\* generate_service_insights
sf_resolve(d, requested) ==
    LET groups == sf_groups(d)
    IN IF requested = NoSubgroup \/ ~InList(requested, groups)
       THEN IF groups # <<>> THEN groups[1] ELSE NoSubgroup
       ELSE requested

\* create_service_factors_chart / generate_service_insights up to the
\* dispatch on chart_type
ServiceFactorSelector ==
    /\ pc = "sf_selector"
    /\ IF ~df.has_group_col \/ req.service_attributes = <<>>
       THEN /\ result' = Placeholder("No data available")
            /\ pc' = "done"
            /\ UNCHANGED <<selected_subgroup, subgroup_data>>
       ELSE LET sel == sf_resolve(df, req.selected_subgroup)
                sub == filter_rows(df, sel)
            IN /\ selected_subgroup' = sel
               /\ subgroup_data' = sub
               /\ IF sel = NoSubgroup
                  THEN /\ result' = Placeholder("No subgroup")
                       /\ pc' = "done"
                  ELSE IF sub.n = 0
                  THEN /\ result' = Placeholder("No data for subgroup")
                       /\ pc' = "done"
                  ELSE /\ pc' = "sf_dispatch"
                       /\ UNCHANGED result
    /\ UNCHANGED splits
    /\ trace' = Append(trace, "selector")
    /\ UNCHANGED <<df, installed, Kept, Analyzer, req, fit, raw, train_checked, shap_values,
                   checked, feature_importance>>

\* the dispatch on chart_type; create_service_factors_chart calls
\* create_combined_chart, which is defined nowhere, for any other chart type
ServiceFactorDispatch ==
    /\ pc = "sf_dispatch"
    /\ IF req.chart_type = "average"
       THEN /\ pc' = "sf_average"
            /\ UNCHANGED result
       ELSE IF req.chart_type = "rf_importance"
       THEN /\ pc' = "rf_gate"
            /\ UNCHANGED result
       ELSE IF req.entry = "create_service_factors_chart"
       THEN /\ result' = Raise("NameError")
            /\ pc' = "done"
       ELSE /\ pc' = "sf_average"
            /\ UNCHANGED result
    /\ UNCHANGED splits
    /\ UNCHANGED trace
    /\ UNCHANGED <<df, installed, Kept, Analyzer, req, Locals>>

\* the mean rating of each listed attribute that is a column, as items
\* (name, column sum); a listed attribute that is no column is skipped
service_ratings(sub, attrs) ==
    LET present == SelectSeq(attrs, has_column)
    IN [i \in 1..Len(present) |->
          Item(present[i], sub.ratings[column_index(present[i])])]

\* max(items, key) and min(items, key): the first of the equal ones
RECURSIVE first_max(_)
first_max(items) ==
    IF Len(items) = 1 THEN items[1]
    ELSE LET m == first_max(Tail(items))
         IN IF items[1].value >= m.value THEN items[1] ELSE m

RECURSIVE first_min(_)
first_min(items) ==
    IF Len(items) = 1 THEN items[1]
    ELSE LET m == first_min(Tail(items))
         IN IF items[1].value <= m.value THEN items[1] ELSE m

Count(items, P(_)) == Cardinality({i \in 1..Len(items) : P(items[i])})

create_average_ratings_chart(sub, attrs) ==
    LET ranked == sorted_desc(service_ratings(sub, attrs))
    IN IF ranked = <<>> THEN Placeholder("No service factor data available")
       ELSE
       [kind |-> "figure", text |-> "average", factors |-> Names(ranked),
        display_factors |-> [i \in 1..Len(ranked) |-> get_display_name(ranked[i].name)],
        importances |-> Values(ranked), den |-> sub.n,
        colors |-> [i \in 1..Len(ranked) |-> rating_color(ranked[i].value, sub.n)],
        has_accuracy |-> FALSE, accuracy |-> 0]

generate_average_insights(sub, attrs) ==
    LET ratings == service_ratings(sub, attrs)
        IsExcellent(it) == it.value >= 4 * sub.n
        IsPoor(it) == 2 * it.value < 5 * sub.n
    IN IF ratings = <<>> THEN Placeholder("No service data available")
       ELSE
       [kind |-> "insights", text |-> "average",
        best |-> first_max(ratings).name, worst |-> first_min(ratings).name,
        excellent |-> Count(ratings, IsExcellent), poor |-> Count(ratings, IsPoor)]

\* create_average_ratings_chart or generate_average_insights on the subgroup
AverageRatings ==
    /\ pc = "sf_average"
    /\ feature_importance' = service_ratings(subgroup_data, req.service_attributes)
    /\ IF req.entry = "create_service_factors_chart"
       THEN /\ result' = create_average_ratings_chart(subgroup_data, req.service_attributes)
            /\ pc' = "done"
       ELSE /\ result' = generate_average_insights(subgroup_data, req.service_attributes)
            /\ pc' = IF req.chart_type = "average" THEN "done" ELSE "rf_gate"
    /\ UNCHANGED splits
    /\ trace' = Append(trace, "ratings")
    /\ UNCHANGED <<df, installed, Kept, Analyzer, req, selected_subgroup, subgroup_data, fit, raw,
                   train_checked, shap_values, checked>>

\* generate_combined_insights puts the rating part and the forest part side
\* by side; the other entry points return the forest part alone
WithRatingPart(r, part) ==
    IF r.entry = "generate_service_insights" /\ r.chart_type = "combined"
    THEN [kind |-> "insights", text |-> "combined", avg |-> result, rf |-> part]
    ELSE part

\* create_rf_importance_chart / generate_rf_insights: the imports, the feature
\* matrix (a KeyError for a listed attribute that is no column, caught by
\* the handler of the function) and the label, and the sufficiency check
RFGate ==
    /\ pc = "rf_gate"
    /\ IF "sklearn" \notin installed
       THEN /\ result' = WithRatingPart(req, Placeholder("sklearn not available"))
            /\ pc' = "done"
       ELSE IF ~has_columns(req.service_attributes)
       THEN /\ result' = WithRatingPart(req,
                Placeholder("Error in Random Forest analysis: KeyError"))
            /\ pc' = "done"
       ELSE IF rf_insufficient(subgroup_data)
       THEN /\ result' = WithRatingPart(req,
                IF req.entry = "create_service_factors_chart"
                THEN Placeholder("Insufficient data for Random Forest analysis")
                ELSE [kind |-> "placeholder",
                      text |-> "Insufficient data for Random Forest analysis",
                      samples |-> subgroup_data.n,
                      outcome_types |-> y_unique(subgroup_data)])
            /\ pc' = "done"
       ELSE /\ pc' = "rf_train"
            /\ UNCHANGED result
    /\ UNCHANGED splits
    /\ trace' = IF "sklearn" \in installed /\ has_columns(req.service_attributes)
                THEN Append(trace, "gate") ELSE trace
    /\ UNCHANGED <<df, installed, Kept, Analyzer, req, Locals>>

\* the split (stratified, or plain after a ValueError) and rf.fit
RFTrain ==
    /\ pc = "rf_train"
    /\ \E o \in FitOutcomes(Len(req.service_attributes)) :
          LET arguments == fit_arguments("ServiceFactor", subgroup_data,
                                         req.service_attributes, Len(answers))
          IN /\ same_answer(answers, arguments, o)
             /\ answers' = with_answer(answers, arguments, o)
             /\ IF o.throws
                THEN /\ result' = WithRatingPart(req, Placeholder("Error in Random Forest analysis"))
                     /\ pc' = "done"
                     /\ UNCHANGED fit
                ELSE /\ fit' = o
                     /\ pc' = "rf_present"
                     /\ UNCHANGED result
    /\ splits' = split_attempts(subgroup_data)
    /\ trace' = trace \o split_events(subgroup_data)
                      \o <<IF pc' = "rf_present" THEN "fit" ELSE "fit_failed">>
    /\ UNCHANGED <<df, installed, stored_shap_values, dash, earlier, other, Analyzer,
                   req, selected_subgroup, subgroup_data, raw,
                   train_checked, shap_values, checked, feature_importance>>

\* dict(zip(service_attributes, rf.feature_importances_))
importance_dict(attrs, importances) ==
    [i \in 1..Min(Len(attrs), Len(importances)) |-> Item(attrs[i], importances[i])]

\* the chart of the fitted forest handed over without the accuracy
rf_importance_figure_alone(items, accuracy) ==
    LET sorted_importance == sorted_desc(items)
    IN [kind |-> "figure", text |-> "rf_importance",
        factors |-> Names(sorted_importance),
        display_factors |-> [i \in 1..Len(sorted_importance) |->
                               get_display_name(sorted_importance[i].name)],
        importances |-> Values(sorted_importance), den |-> 1,
        colors |-> [i \in 1..Len(sorted_importance) |->
                      rf_color(sorted_importance[i].value)],
        has_accuracy |-> FALSE, accuracy |-> 0]

\* create_rf_importance_chart from the sort on: (fig, accuracy)
rf_importance_figure(items, accuracy) ==
    LET sorted_importance == sorted_desc(items)
    IN [kind |-> "figure", text |-> "rf_importance",
        factors |-> Names(sorted_importance),
        display_factors |-> [i \in 1..Len(sorted_importance) |->
                               get_display_name(sorted_importance[i].name)],
        importances |-> Values(sorted_importance), den |-> 1,
        colors |-> [i \in 1..Len(sorted_importance) |->
                      rf_color(sorted_importance[i].value)],
        has_accuracy |-> TRUE, accuracy |-> accuracy]

\* generate_rf_insights from the sort on
rf_insights(items, accuracy) ==
    LET sorted_importance == sorted_desc(items)
        IsHigh(it) == it.value >= HighImportance
        IsLow(it) == it.value < MediumImportance
        high == Count(sorted_importance, IsHigh)
    IN [kind |-> "insights", text |-> "rf_importance",
        top_factor |-> sorted_importance[1].name,
        high_impact |-> high, low_impact |-> Count(sorted_importance, IsLow),
        strategy |-> strategy(high), model_quality |-> model_quality(accuracy),
        accuracy |-> accuracy]

\* importances, ranking, colours and accuracy of the fitted forest
RFPresent ==
    /\ pc = "rf_present"
    /\ LET items == importance_dict(req.service_attributes, fit.importances)
       IN /\ feature_importance' = items
          /\ result' = IF req.entry = "create_service_factors_chart"
                       THEN rf_importance_figure(items, fit.accuracy)
                       ELSE WithRatingPart(req, rf_insights(items, fit.accuracy))
    /\ pc' = "done"
    /\ UNCHANGED splits
    /\ trace' = trace \o <<"extractor", "presenter">>
    /\ UNCHANGED <<df, installed, Kept, Analyzer, req, selected_subgroup, subgroup_data, fit, raw,
                   train_checked, shap_values, checked>>

\* the entry point has returned; its locals are gone
Return ==
    /\ pc = "done"
    /\ dash.stage \in {"none", "returned"}
    /\ pc' = "idle"
    /\ req' = NoReq
    /\ selected_subgroup' = NoSubgroup
    /\ subgroup_data' = EmptyBlock
    /\ fit' = NoFit
    /\ raw' = None
    /\ train_checked' = None
    /\ shap_values' = None
    /\ checked' = None
    /\ feature_importance' = <<>>
    /\ result' = NoResult
    /\ feature_importance_results' = <<>>
    /\ accuracy_results' = <<>>
    /\ splits' = <<>>
    /\ trace' = <<>>
    /\ stored_shap_values' = <<>>
    /\ dash' = NoDash
    /\ answers' = <<>>
    /\ UNCHANGED <<df, installed, earlier, other>>

\* ------------------------------------------------------------ Shap.py, entry points

\* the caller builds a SHAPAnalyzer over the dataset and invokes a method
CallShap ==
    /\ pc = "idle"
    /\ \E e \in ShapEntries, attrs \in AttrLists, sel \in Requested :
          req' = [entry |-> e, service_attributes |-> attrs,
                  selected_subgroup |-> sel, chart_type |-> "none"]
    /\ pc' = "shap_selector"
    /\ result' = NoResult
    /\ splits' = <<>>
    /\ trace' = <<>>
    /\ UNCHANGED <<df, installed, Kept, Analyzer, Locals>>

\* the missing-analysis case leaving the entry point as an exception
shap_unavailable_raises(entry) == Raise("ImportError")

\* what the entry point returns when analyze_subgroup_shap returned None
shap_unavailable(entry) ==
    IF entry = "generate_shap_insights"
    THEN Placeholder("SHAP analysis not available")
    ELSE Placeholder("No SHAP analysis available")

\* the causes for which train_model_and_calculate_shap gives up
ShapFailureCauses ==
    {"missing_dependency", "too_few_rows", "single_class", "no_features",
     "training_failure", "explanation_failure", "shape_mismatch"}

\* what the caller of a SHAP entry point receives for each cause: every
\* give-up of train_model_and_calculate_shap is the return of four None,
\* which analyze_subgroup_shap hands over as None
shap_failure_signal(entry, cause) ==
    LET shap_result ==
            CASE cause = "missing_dependency" -> None
              [] cause = "too_few_rows" -> None
              [] cause = "single_class" -> None
              [] cause = "no_features" -> None
              [] cause \in {"training_failure", "explanation_failure",
                            "shape_mismatch"} -> None
    IN IF shap_result = None THEN shap_unavailable(entry) ELSE NoResult

\* sorted(values): alphabetical
sorted_groups(values) ==
    LET present == {i \in 1..Len(AlphaOrder) : InList(AlphaOrder[i], values)}
        nth[j \in 1..Cardinality(present)] ==
            CHOOSE i \in present : Cardinality({h \in present : h < i}) = j - 1
    IN [j \in 1..Cardinality(present) |-> AlphaOrder[nth[j]]]

\* sorted() compares a float nan with a str and raises TypeError
sort_raises(values) == InList(NaN, values) /\ Len(values) >= 2

\* sorted(df[group_col].unique()); a single nan sorts without a comparison
sorted_unique(d) ==
    IF unique(d) = <<NaN>> THEN <<NaN>> ELSE sorted_groups(unique(d))

\* a resolution that takes the requested value without looking at the groups
shap_resolve_as_requested(groups, requested) ==
    IF requested = NoSubgroup
    THEN IF groups # <<>> THEN groups[1] ELSE NoSubgroup
    ELSE requested

\* the fallback to the first group of analyze_subgroup_shap and
\* create_rf_analysis_for_dashboard
shap_resolve(groups, requested) ==
    IF requested = NoSubgroup \/ ~InList(requested, groups)
    THEN IF groups # <<>> THEN groups[1] ELSE NoSubgroup
    ELSE requested

\* analyze_subgroup_shap up to the call of the trainer
ShapSelector ==
    /\ pc = "shap_selector"
    /\ IF ~df.has_group_col
       THEN /\ result' = shap_unavailable(req.entry)
            /\ pc' = "done"
            /\ UNCHANGED <<selected_subgroup, subgroup_data>>
       ELSE IF sort_raises(unique(df))
       THEN /\ result' = Raise("TypeError")
            /\ pc' = "done"
            /\ UNCHANGED <<selected_subgroup, subgroup_data>>
       ELSE LET groups == IF unique(df) = <<NaN>> THEN <<NaN>>
                          ELSE sorted_groups(unique(df))
                sel == shap_resolve(groups, req.selected_subgroup)
            IN /\ selected_subgroup' = sel
               /\ IF sel = NoSubgroup
                  THEN /\ result' = shap_unavailable(req.entry)
                       /\ pc' = "done"
                       /\ UNCHANGED subgroup_data
                  ELSE /\ subgroup_data' = filter_rows(df, sel)
                       /\ pc' = "shap_gate"
                       /\ UNCHANGED result
    /\ UNCHANGED splits
    /\ trace' = Append(trace, "selector")
    /\ UNCHANGED <<df, installed, Kept, Analyzer, req, fit, raw, train_checked, shap_values,
                   checked, feature_importance>>

MinSamplesShap == 50

\* the sufficiency check without its row count
shap_rejects_any_size(libs, sub, attrs) ==
    \/ ~({"sklearn", "shap"} \subseteq libs)
    \/ y_unique(sub) < 2
    \/ sub.n = 0 \/ Len(attrs) = 0

\* train_model_and_calculate_shap up to the split: the imports, the sample
\* count, the label classes, the feature matrix
shap_rejects(libs, sub, attrs) ==
    \/ ~({"sklearn", "shap"} \subseteq libs)
    \/ sub.n < MinSamplesShap
    \/ y_unique(sub) < 2
    \/ sub.n = 0 \/ Len(attrs) = 0

\* prepare_data_for_subgroup, called after the imports and the sample count
\* and outside any handler, raises KeyError for a listed attribute that is
\* no column
shap_key_error(libs, sub, attrs) ==
    /\ {"sklearn", "shap"} \subseteq libs
    /\ sub.n >= MinSamplesShap
    /\ ~has_columns(attrs)

ShapGate ==
    /\ pc = "shap_gate"
    /\ IF shap_key_error(installed, subgroup_data, req.service_attributes)
       THEN /\ result' = Raise("KeyError")
            /\ pc' = "done"
       ELSE IF shap_rejects(installed, subgroup_data, req.service_attributes)
       THEN /\ result' = shap_unavailable(req.entry)
            /\ pc' = "done"
       ELSE /\ pc' = "shap_train"
            /\ UNCHANGED result
    /\ UNCHANGED splits
    /\ trace' = IF {"sklearn", "shap"} \subseteq installed
                THEN Append(trace, "gate") ELSE trace
    /\ UNCHANGED <<df, installed, Kept, Analyzer, req, Locals>>

\* train_model_and_calculate_shap from the split on, and the hand-over of
\* analyze_subgroup_shap: any exception of the fit, the explainer or the shape
\* handling ends in the unavailable result
ShapTrain ==
    /\ pc = "shap_train"
    /\ \E o \in ExplainerOutcomes(Len(req.service_attributes)) :
          LET stepped == train_list_step(o.raw)
              shaped == train_shape_step(stepped, Len(req.service_attributes))
              arguments == fit_arguments("SHAPAnalyzer", subgroup_data,
                                         req.service_attributes, Len(answers))
          IN /\ same_answer(answers, arguments, o)
             /\ answers' = with_answer(answers, arguments, o)
             /\ IF o.throws
                THEN /\ result' = shap_unavailable(req.entry)
                     /\ pc' = "done"
                     /\ stored_shap_values' =
                           store_shap(stored_shap_values, selected_subgroup, None)
                     /\ UNCHANGED <<fit, raw, train_checked, shap_values>>
                ELSE /\ raw' = o.raw
                     /\ train_checked' = IF stepped.kind = "ndarray" THEN stepped ELSE None
                     /\ IF shaped.ok
                        THEN /\ shap_values' = shaped.v
                             /\ stored_shap_values' =
                                   store_shap(stored_shap_values, selected_subgroup,
                                              shaped.v)
                             /\ fit' = [throws |-> FALSE, importances |-> <<>>,
                                        accuracy |-> o.accuracy]
                             /\ pc' = req.entry
                             /\ UNCHANGED result
                        ELSE /\ result' = shap_unavailable(req.entry)
                             /\ pc' = "done"
                             /\ stored_shap_values' =
                                   store_shap(stored_shap_values, selected_subgroup,
                                              None)
                             /\ UNCHANGED <<fit, shap_values>>
    /\ splits' = split_attempts(subgroup_data)
    /\ trace' = trace \o split_events(subgroup_data)
                      \o (IF raw' = None THEN <<"fit_failed">>
                          ELSE <<"fit", "explainer">>)
    /\ UNCHANGED <<df, installed, dash, earlier, other, Analyzer, req,
                   selected_subgroup, subgroup_data, checked, feature_importance>>

\* the leading features matched with the leading magnitudes
leading_items(attrs, magnitudes) ==
    [i \in 1..Min(Len(attrs), Len(magnitudes)) |-> Item(attrs[i], magnitudes[i])]

VeryHighShare == 8
HighShare == 6
MediumShare == 4

\* the colour of importance / max_importance with the thresholds compared
\* by >
shap_color_exclusive(importance, max_importance) ==
    IF 10 * importance > VeryHighShare * max_importance THEN "#FF6B6B"
    ELSE IF 10 * importance > HighShare * max_importance THEN "#FFA726"
    ELSE IF 10 * importance > MediumShare * max_importance THEN "#FFD54F"
    ELSE "#81C784"

\* create_shap_summary_chart: colour of importance / max_importance
shap_color(importance, max_importance) ==
    IF 10 * importance >= VeryHighShare * max_importance THEN "#FF6B6B"
    ELSE IF 10 * importance >= HighShare * max_importance THEN "#FFA726"
    ELSE IF 10 * importance >= MediumShare * max_importance THEN "#FFD54F"
    ELSE "#81C784"

\* create_shap_summary_chart from the ranking on; importance / max_importance
\* is a float division and raises ZeroDivisionError when the maximum is zero
shap_summary_figure(items, den, accuracy) ==
    IF items = <<>> THEN Placeholder("No feature importance data available")
    ELSE LET sorted_importance == sorted_desc(items)
             max_importance == MaxOf(Values(sorted_importance))
         IN IF max_importance = 0 THEN Placeholder("Error creating SHAP chart")
            ELSE [kind |-> "figure", text |-> "shap_summary",
                  factors |-> Names(sorted_importance),
                  display_factors |-> [i \in 1..Len(sorted_importance) |->
                                         truncate_25(sorted_importance[i].name)],
                  importances |-> Values(sorted_importance), den |-> den,
                  colors |-> [i \in 1..Len(sorted_importance) |->
                                shap_color(sorted_importance[i].value, max_importance)],
                  has_accuracy |-> FALSE, accuracy |-> accuracy]

\* the ranking step has run when the entry point returns a chart or a summary
presented(r) == IF r.kind \in {"figure", "insights"} THEN <<"presenter">> ELSE <<>>

\* create_shap_summary_chart after analyze_subgroup_shap
ShapSummary ==
    /\ pc = "create_shap_summary_chart"
    /\ LET expected_features == Len(req.service_attributes)
           stepped == summary_list_step(shap_values)
           a == summary_shape_step(stepped, expected_features)
           items == leading_items(req.service_attributes, abs_mean_axis0(a))
       IN /\ checked' = stepped
          /\ feature_importance' = items
          /\ result' = shap_summary_figure(items, a.shape[1], fit.accuracy)
    /\ pc' = "done"
    /\ UNCHANGED splits
    /\ trace' = trace \o <<"extractor">> \o presented(result')
    /\ UNCHANGED <<df, installed, Kept, Analyzer, req, selected_subgroup, subgroup_data, fit, raw,
                   train_checked, shap_values>>

\* generate_shap_insights: at least two axes, then the column count against
\* the feature count; fewer columns than features ends the handler
insights_shape_step(a, expected_features) ==
    LET b == IF ndim(a) <= 1 THEN reshape_row(a) ELSE a
        actual_features == b.shape[2]
    IN IF actual_features = expected_features * 2
       THEN Ok(slice_cols(b, expected_features))
       ELSE IF actual_features = expected_features THEN Ok(b)
       ELSE IF actual_features > expected_features
       THEN Ok(slice_cols(b, expected_features))
       ELSE Raised

\* ten times np.percentile(values, 70) of the values given in descending
\* order: linear interpolation between the two nearest ranks
percentile_70_x10(desc) ==
    LET m == Len(desc)
        asc == [i \in 1..m |-> desc[m + 1 - i]]
        lo == (7 * (m - 1)) \div 10
        fr == (7 * (m - 1)) % 10
        hi == Min(lo + 1, m - 1)
    IN 10 * asc[lo + 1] + fr * (asc[hi + 1] - asc[lo + 1])

\* generate_shap_insights: the model-quality label of an accuracy
shap_model_quality(accuracy) ==
    IF accuracy >= 850000 THEN "Excellent"
    ELSE IF accuracy >= 750000 THEN "Good"
    ELSE "Fair"

\* generate_shap_insights from the ranking on
shap_insights(items, signed, accuracy) ==
    IF items = <<>> THEN Placeholder("No valid feature importance values")
    ELSE LET sorted_importance == sorted_desc(items)
             threshold == percentile_70_x10(Values(sorted_importance))
             IsHigh(it) == 10 * it.value >= threshold
             high == Count(sorted_importance, IsHigh)
             n == Min(Len(items), Len(signed))
         IN [kind |-> "insights", text |-> "shap",
             top_factor |-> sorted_importance[1].name,
             high_impact |-> high,
             positive |-> Cardinality({i \in 1..n : signed[i] > 0}),
             negative |-> Cardinality({i \in 1..n : signed[i] < 0}),
             strategy |-> strategy(high), model_quality |-> shap_model_quality(accuracy),
             accuracy |-> accuracy]

\* generate_shap_insights after analyze_subgroup_shap
ShapInsights ==
    /\ pc = "generate_shap_insights"
    /\ LET expected_features == Len(req.service_attributes)
           stepped == insights_list_step(shap_values)
           shaped == insights_shape_step(stepped, expected_features)
           items == leading_items(req.service_attributes, abs_mean_axis0(shaped.v))
       IN /\ checked' = stepped
          /\ IF shaped.ok
             THEN /\ feature_importance' = items
                  /\ result' = shap_insights(items, mean_axis0(shaped.v), fit.accuracy)
             ELSE /\ result' = Placeholder("Cannot fix feature mismatch")
                  /\ UNCHANGED feature_importance
    /\ pc' = "done"
    /\ UNCHANGED splits
    /\ trace' = trace \o <<"extractor">> \o presented(result')
    /\ UNCHANGED <<df, installed, Kept, Analyzer, req, selected_subgroup, subgroup_data, fit, raw,
                   train_checked, shap_values>>

\* create_shap_waterfall_chart: a 1-D array becomes one row, then the
\* doubled-width cut; a 0-D array has no shape[1]
waterfall_shape_step(a, expected_features) ==
    LET b == IF ndim(a) = 1 THEN reshape_row(a) ELSE a
    IN IF ndim(b) < 2 THEN Raised
       ELSE IF b.shape[2] = expected_features * 2
            THEN Ok(slice_cols(b, expected_features))
            ELSE Ok(b)

\* shap_values[0]
first_row(a) ==
    NdArray(Tail(a.shape), SubSeq(a.data, 1, Prod(Tail(a.shape))))

\* insert x behind every item whose absolute value is at least as large
RECURSIVE InsertAbsDesc(_, _)
InsertAbsDesc(x, s) ==
    IF s = <<>> THEN <<x>>
    ELSE IF Abs(Head(s).value) >= Abs(x.value)
         THEN <<Head(s)>> \o InsertAbsDesc(x, Tail(s))
         ELSE <<x>> \o s

\* list.sort(key=lambda x: abs(x[1]), reverse=True)
RECURSIVE sorted_abs_desc(_)
sorted_abs_desc(items) ==
    IF items = <<>> THEN <<>>
    ELSE InsertAbsDesc(items[Len(items)],
                       sorted_abs_desc(SubSeq(items, 1, Len(items) - 1)))

TopFeatures == 8

\* create_shap_waterfall_chart from the selected sample on: min() of an empty
\* sample raises, and a sample with a second axis has no scalar entries
waterfall_figure(a, attrs) ==
    LET sample_shap == first_row(a)
        min_features == Min(Len(attrs), IF ndim(sample_shap) = 0 THEN 0
                                        ELSE sample_shap.shape[1])
    IN IF ndim(sample_shap) = 0 \/ min_features = 0
       THEN Placeholder("Error creating waterfall chart")
       ELSE IF ndim(sample_shap) > 1 THEN Placeholder("Debug Info")
       ELSE LET contributions ==
                    sorted_abs_desc(leading_items(attrs, sample_shap.data))
                top_features ==
                    SubSeq(contributions, 1, Min(TopFeatures, Len(contributions)))
            IN [kind |-> "figure", text |-> "shap_waterfall",
                factors |-> Names(top_features),
                importances |-> Values(top_features), den |-> 1,
                colors |-> [i \in 1..Len(top_features) |->
                              IF top_features[i].value > 0 THEN "green" ELSE "red"],
                has_accuracy |-> FALSE, accuracy |-> 0]

\* create_shap_waterfall_chart after analyze_subgroup_shap
ShapWaterfall ==
    /\ pc = "create_shap_waterfall_chart"
    /\ LET expected_features == Len(req.service_attributes)
           stepped == insights_list_step(shap_values)
           shaped == waterfall_shape_step(stepped, expected_features)
       IN /\ checked' = stepped
          /\ result' = IF shaped.ok
                       THEN waterfall_figure(shaped.v, req.service_attributes)
                       ELSE Placeholder("Error creating waterfall chart")
    /\ pc' = "done"
    /\ UNCHANGED splits
    /\ trace' = trace \o <<"extractor">> \o presented(result')
    /\ UNCHANGED <<df, installed, Kept, Analyzer, req, selected_subgroup, subgroup_data, fit, raw,
                   train_checked, shap_values, feature_importance>>

\* ------------------------------------------------------------ Shap.py, dashboard

\* the chart types of create_shap_analysis_for_dashboard: any type other than
\* 'summary' and 'waterfall' is drawn as the summary
DashChartTypes == {"summary", "waterfall", "other"}

\* the requested group value and the chart type of the dashboard calls
DashCalls ==
    {<<NoSubgroup, "summary">>, <<"Eco", "waterfall">>, <<"Premium", "other">>}

\* the method that draws the chart of a chart type
dash_chart_method(chart_type) ==
    IF chart_type = "waterfall" THEN "create_shap_waterfall_chart"
    ELSE "create_shap_summary_chart"

\* the (chart, insights) pair create_shap_analysis_for_dashboard returns
ShapPair(chart, insights) ==
    [kind |-> "pair", text |-> "shap_analysis", chart |-> chart, insights |-> insights]

\* the pair returned when no group value can be resolved
ShapNoData ==
    [kind |-> "pair", text |-> "shap_no_data",
     chart |-> Placeholder("No data available"),
     insights |-> Placeholder("No data available")]

\* the pair the handler of create_shap_analysis_for_dashboard returns for any
\* exception
ShapErrorPair(error) ==
    [kind |-> "pair", text |-> "shap_error", error |-> error,
     chart |-> Placeholder("Error in SHAP analysis"),
     insights |-> Placeholder("SHAP Error")]

\* the caller invokes create_shap_analysis_for_dashboard: it builds its own
\* SHAPAnalyzer, resolves the subgroup and calls the chart method
CallShapDashboard ==
    /\ pc = "idle"
    /\ \E attrs \in AttrLists, c \in DashCalls :
          LET requested == c[1]
              ct == c[2]
              call == [entry |-> "create_shap_analysis_for_dashboard",
                       service_attributes |-> attrs,
                       selected_subgroup |-> requested, chart_type |-> ct]
              groups == IF df.has_group_col THEN sorted_unique(df) ELSE <<>>
              sel == shap_resolve(groups, requested)
          IN IF df.has_group_col /\ sort_raises(unique(df))
             THEN /\ req' = call
                  /\ result' = ShapErrorPair("TypeError")
                  /\ dash' = [stage |-> "returned", chart_type |-> ct,
                              chart |-> NoResult, req |-> call]
                  /\ pc' = "done"
             ELSE IF sel = NoSubgroup
             THEN /\ req' = call
                  /\ result' = ShapNoData
                  /\ dash' = [stage |-> "returned", chart_type |-> ct,
                              chart |-> NoResult, req |-> call]
                  /\ pc' = "done"
             ELSE /\ req' = [entry |-> dash_chart_method(ct),
                             service_attributes |-> attrs,
                             selected_subgroup |-> sel, chart_type |-> "none"]
                  /\ result' = NoResult
                  /\ dash' = [stage |-> "chart", chart_type |-> ct,
                              chart |-> NoResult, req |-> call]
                  /\ pc' = "shap_selector"
    /\ stored_shap_values' = <<>>
    /\ splits' = <<>>
    /\ trace' = <<>>
    /\ UNCHANGED <<df, installed, answers, earlier, other, Analyzer, Locals>>

\* the chart method has returned: an exception goes to the handler and ends
\* the call; otherwise generate_shap_insights is called on the same analyzer
ShapDashboardInsights ==
    /\ pc = "done"
    /\ dash.stage = "chart"
    /\ IF result.kind = "raised"
       THEN /\ result' = ShapErrorPair(result.text)
            /\ dash' = [dash EXCEPT !.stage = "returned"]
            /\ req' = dash.req
            /\ pc' = "done"
            /\ UNCHANGED <<Locals, trace, splits>>
       ELSE /\ result' = NoResult
            /\ dash' = [dash EXCEPT !.stage = "insights", !.chart = result]
            /\ req' = [req EXCEPT !.entry = "generate_shap_insights"]
            /\ pc' = "shap_selector"
            /\ selected_subgroup' = NoSubgroup
            /\ subgroup_data' = EmptyBlock
            /\ fit' = NoFit
            /\ raw' = None
            /\ train_checked' = None
            /\ shap_values' = None
            /\ checked' = None
            /\ feature_importance' = <<>>
            /\ trace' = <<>>
            /\ splits' = <<>>
    /\ UNCHANGED <<df, installed, stored_shap_values, answers, earlier, other, Analyzer>>

\* generate_shap_insights has returned: the pair, or the handler's pair for
\* an exception
ShapDashboardReturn ==
    /\ pc = "done"
    /\ dash.stage = "insights"
    /\ result' = IF result.kind = "raised" THEN ShapErrorPair(result.text)
                 ELSE ShapPair(dash.chart, result)
    /\ dash' = [dash EXCEPT !.stage = "returned"]
    /\ req' = dash.req
    /\ pc' = "done"
    /\ UNCHANGED <<df, installed, stored_shap_values, answers, earlier, other, Analyzer,
                   Locals, trace, splits>>

\* ------------------------------------------------------------ SubgroupRFAnalysis.py

MinSamplesSubgroupRF == 50

\* create_single_subgroup_chart: colour of one importance
subgroup_rf_color(importance) ==
    IF importance >= VeryHighImportance THEN "#FF6B6B"
    ELSE IF importance >= HighImportance THEN "#FFA726"
    ELSE IF importance >= MediumImportance THEN "#FFD54F"
    ELSE "#81C784"

\* train_rf_for_subgroup: None for too few rows; prepare_data_for_subgroup
\* raises KeyError for a listed attribute that is no column; None for a
\* single class; rf.fit raises on a feature matrix without columns and when
\* the fit throws
train_rf_for_subgroup(sub, attrs, o) ==
    IF sub.n < MinSamplesSubgroupRF
    THEN [trained |-> FALSE, raised |-> FALSE, importance |-> <<>>, accuracy |-> 0,
          events |-> <<"gate">>, splits |-> <<>>, error |-> ""]
    ELSE IF ~has_columns(attrs)
    THEN [trained |-> FALSE, raised |-> TRUE, importance |-> <<>>, accuracy |-> 0,
          events |-> <<"gate">>, splits |-> <<>>, error |-> "KeyError"]
    ELSE IF y_unique(sub) < 2
    THEN [trained |-> FALSE, raised |-> FALSE, importance |-> <<>>, accuracy |-> 0,
          events |-> <<"gate">>, splits |-> <<>>, error |-> ""]
    ELSE IF Len(attrs) = 0 \/ o.throws
    THEN [trained |-> FALSE, raised |-> TRUE, importance |-> <<>>, accuracy |-> 0,
          events |-> <<"gate">> \o split_events(sub) \o <<"fit_failed">>,
          splits |-> split_attempts(sub), error |-> "ValueError"]
    ELSE [trained |-> TRUE, raised |-> FALSE, error |-> "",
          importance |-> importance_dict(attrs, o.importances),
          accuracy |-> o.accuracy,
          events |-> <<"gate">> \o split_events(sub) \o <<"fit">>,
          splits |-> split_attempts(sub)]

\* the fit of the next subgroup draws the next outcome; after the last one
\* it throws, so a fit can fail for a later subgroup when the fits of the
\* earlier ones succeeded
NextFitSeed(s) == IF s = Len(ImportanceValues) THEN -1 ELSE s + 1

\* analyze_all_subgroups from the i-th subgroup on: the dictionaries filled
\* until the loop ends or a fit raises
RECURSIVE analyze_from(_, _, _, _, _)
analyze_from(d, attrs, subgroups, i, s) ==
    IF i > Len(subgroups)
    THEN [raised |-> FALSE, importances |-> <<>>, accuracies |-> <<>>,
          events |-> <<>>, splits |-> <<>>, error |-> ""]
    ELSE LET t == train_rf_for_subgroup(filter_rows(d, subgroups[i]), attrs,
                                        FitOutcomeOf(Len(attrs), s))
             rest == analyze_from(d, attrs, subgroups, i + 1,
                                  IF t.trained THEN NextFitSeed(s) ELSE s)
         IN IF t.raised
            THEN [raised |-> TRUE, importances |-> <<>>, accuracies |-> <<>>,
                  events |-> t.events, splits |-> t.splits, error |-> t.error]
            ELSE IF ~t.trained
            THEN [rest EXCEPT !.events = t.events \o rest.events]
            ELSE [raised |-> rest.raised, error |-> rest.error,
                  importances |-> <<[subgroup |-> subgroups[i],
                                     importance |-> t.importance]>>
                                  \o rest.importances,
                  accuracies |-> <<[subgroup |-> subgroups[i],
                                    accuracy |-> t.accuracy]>>
                                 \o rest.accuracies,
                  events |-> t.events \o rest.events,
                  splits |-> t.splits \o rest.splits]

\* selected_subgroup in self.feature_importance_results
HasResult(results, subgroup) ==
    \E i \in 1..Len(results) : results[i].subgroup = subgroup

\* self.feature_importance_results[subgroup], self.accuracy_results[subgroup]
ResultOf(results, subgroup) ==
    results[CHOOSE i \in 1..Len(results) : results[i].subgroup = subgroup]

\* the caller invokes create_rf_analysis_for_dashboard, which builds its own
\* SubgroupRFAnalyzer with empty dictionaries; the module imports sklearn
\* when it is loaded
CallSubgroupRF ==
    /\ pc = "idle"
    /\ "sklearn" \in installed
    /\ \E attrs \in AttrLists, sel \in Requested :
          req' = [entry |-> "create_rf_analysis_for_dashboard",
                  service_attributes |-> attrs,
                  selected_subgroup |-> sel, chart_type |-> "none"]
    /\ pc' = "srf_analyze"
    /\ result' = NoResult
    /\ splits' = <<>>
    /\ trace' = <<>>
    /\ feature_importance_results' = <<>>
    /\ accuracy_results' = <<>>
    /\ UNCHANGED <<df, installed, Kept, Locals>>

\* SubgroupRFAnalyzer(df, service_attributes).analyze_all_subgroups(group_col)
SubgroupRFAnalyze ==
    /\ pc = "srf_analyze"
    /\ IF ~df.has_group_col
       THEN /\ pc' = "srf_dashboard"
            /\ UNCHANGED <<result, Analyzer, trace, splits, answers>>
       ELSE IF sort_raises(unique(df))
       THEN /\ result' = Raise("TypeError")
            /\ pc' = "done"
            /\ UNCHANGED <<Analyzer, trace, splits, answers>>
       ELSE \E s \in FitSeeds :
               LET r == analyze_from(df, req.service_attributes, sorted_unique(df), 1, s)
                   arguments == fit_arguments("SubgroupRFAnalyzer", df,
                                              req.service_attributes, Len(answers))
               IN /\ same_answer(answers, arguments, s)
                  /\ answers' = with_answer(answers, arguments, s)
                  /\ feature_importance_results' = r.importances
                  /\ accuracy_results' = r.accuracies
                  /\ trace' = trace \o r.events
                  /\ splits' = r.splits
                  /\ IF r.raised
                     THEN /\ result' = Raise(r.error)
                          /\ pc' = "done"
                     ELSE /\ pc' = "srf_dashboard"
                          /\ UNCHANGED result
    /\ UNCHANGED <<df, installed, stored_shap_values, dash, earlier, other, req, Locals>>

\* create_single_subgroup_chart
create_single_subgroup_chart(selected) ==
    IF ~HasResult(feature_importance_results, selected)
    THEN Placeholder("No Random Forest analysis for subgroup")
    ELSE LET sorted_importance ==
                 sorted_desc(ResultOf(feature_importance_results, selected).importance)
         IN [kind |-> "figure", text |-> "rf_subgroup",
             factors |-> Names(sorted_importance),
             display_factors |-> [i \in 1..Len(sorted_importance) |->
                                    truncate_25(sorted_importance[i].name)],
             importances |-> Values(sorted_importance), den |-> 1,
             colors |-> [i \in 1..Len(sorted_importance) |->
                           subgroup_rf_color(sorted_importance[i].value)],
             has_accuracy |-> TRUE,
             accuracy |-> ResultOf(accuracy_results, selected).accuracy]

\* SubgroupRFAnalyzer.generate_rf_insights: the model-quality label of an
\* accuracy
subgroup_rf_model_quality(accuracy) ==
    IF accuracy >= 850000 THEN "Excellent"
    ELSE IF accuracy >= 750000 THEN "Good"
    ELSE "Fair"

\* SubgroupRFAnalyzer.generate_rf_insights
subgroup_rf_insights(selected) ==
    IF ~HasResult(feature_importance_results, selected)
    THEN Placeholder("No Random Forest analysis available")
    ELSE LET sorted_importance ==
                 sorted_desc(ResultOf(feature_importance_results, selected).importance)
             accuracy == ResultOf(accuracy_results, selected).accuracy
             IsHigh(it) == it.value >= HighImportance
             IsLow(it) == it.value < MediumImportance
             high == Count(sorted_importance, IsHigh)
         IN [kind |-> "insights", text |-> "rf_subgroup",
             top_factor |-> sorted_importance[1].name,
             high_impact |-> high, low_impact |-> Count(sorted_importance, IsLow),
             strategy |-> strategy(high), model_quality |-> subgroup_rf_model_quality(accuracy),
             accuracy |-> accuracy]

\* the (chart, insights) pair create_rf_analysis_for_dashboard returns
Pair(chart, insights) ==
    [kind |-> "pair", text |-> "rf_analysis", chart |-> chart, insights |-> insights]

\* create_rf_analysis_for_dashboard after the analysis: the subgroup, its
\* chart and its insights
SubgroupRFDashboard ==
    /\ pc = "srf_dashboard"
    /\ LET groups == IF df.has_group_col THEN sorted_unique(df) ELSE <<>>
           sel == shap_resolve(groups, req.selected_subgroup)
       IN /\ selected_subgroup' = sel
          /\ IF sel = NoSubgroup
             THEN /\ result' = Pair([kind |-> "figure", text |-> "empty"],
                                    Placeholder("No data available"))
                  /\ UNCHANGED <<subgroup_data, feature_importance>>
             ELSE /\ subgroup_data' = filter_rows(df, sel)
                  /\ feature_importance' =
                        IF HasResult(feature_importance_results, sel)
                        THEN ResultOf(feature_importance_results, sel).importance
                        ELSE <<>>
                  /\ result' = Pair(create_single_subgroup_chart(sel),
                                    subgroup_rf_insights(sel))
    /\ pc' = "done"
    /\ UNCHANGED splits
    /\ trace' = trace \o <<"selector">>
                      \o (IF result'.chart.text = "rf_subgroup"
                          THEN <<"presenter">> ELSE <<>>)
    /\ UNCHANGED <<df, installed, Kept, Analyzer, req, fit, raw, train_checked,
                   shap_values, checked>>

\* the caller invokes generate_subgroup_info_header
CallSubgroupInfoHeader ==
    /\ pc = "idle"
    /\ \E sel \in Requested :
          req' = [entry |-> "generate_subgroup_info_header", service_attributes |-> <<>>,
                  selected_subgroup |-> sel, chart_type |-> "none"]
    /\ pc' = "header"
    /\ result' = NoResult
    /\ splits' = <<>>
    /\ trace' = <<>>
    /\ UNCHANGED <<df, installed, Kept, Analyzer, Locals>>

\* generate_subgroup_info_header: the same resolution of the subgroup as the
\* chart and the insights, then the passenger count and the satisfied share
SubgroupInfoHeader ==
    /\ pc = "header"
    /\ IF ~df.has_group_col
       THEN /\ result' = Placeholder("No subgroup data available")
            /\ UNCHANGED <<selected_subgroup, subgroup_data>>
       ELSE LET sel == sf_resolve(df, req.selected_subgroup)
                sub == filter_rows(df, sel)
            IN /\ selected_subgroup' = sel
               /\ subgroup_data' = sub
               /\ result' = IF sel = NoSubgroup THEN Placeholder("No subgroup")
                             ELSE IF sub.n = 0 THEN Placeholder("No data for subgroup")
                             ELSE [kind |-> "header", text |-> "header",
                                   subgroup |-> sel, total_passengers |-> sub.n,
                                   satisfied |-> sub.nsat]
    /\ pc' = "done"
    /\ UNCHANGED splits
    /\ trace' = Append(trace, "selector")
    /\ UNCHANGED <<df, installed, Kept, Analyzer, req, fit, raw, train_checked, shap_values,
                   checked, feature_importance>>

\* ------------------------------------------------------------ specification

Next ==
    \/ CallServiceFactor
    \/ ServiceFactorSelector
    \/ ServiceFactorDispatch
    \/ AverageRatings
    \/ RFGate
    \/ RFTrain
    \/ RFPresent
    \/ CallShap
    \/ ShapSelector
    \/ ShapGate
    \/ ShapTrain
    \/ ShapSummary
    \/ ShapInsights
    \/ ShapWaterfall
    \/ CallSubgroupRF
    \/ SubgroupRFAnalyze
    \/ SubgroupRFDashboard
    \/ CallShapDashboard
    \/ ShapDashboardInsights
    \/ ShapDashboardReturn
    \/ CallSubgroupInfoHeader
    \/ SubgroupInfoHeader
    \/ Return

Spec == Init /\ [][Next]_vars

\* ------------------------------------------------------------ sessions

\* A session is a sequence of calls on one loaded dataset: a first call, a
\* second one, and the first one again, either after the second returned or
\* in a thread of its own next to another call. The libraries answer the
\* same arguments with the same values throughout.

\* the call as the caller made it
TopReq == IF dash.stage = "none" THEN req ELSE dash.req

\* the call of a request that is not scheduled
TopOf(context) ==
    IF context.dash.stage = "none" THEN context.req ELSE context.dash.req

\* the charts and summaries a returned value is made of
PartsOf(r) ==
    IF r.kind = "pair" THEN {r.chart, r.insights}
    ELSE IF r.kind = "insights" /\ r.text = "combined" THEN {r.avg, r.rf}
    ELSE {r}

\* the call ended in an exception, an error pair or a placeholder
Failed(r) == \E part \in PartsOf(r) : part.kind \in {"placeholder", "raised"}

\* the datasets of a session: a plain column with 'Business' rows followed by
\* 'Eco' rows, the 'Eco' subgroup trainable by every trainer
SessionDatasets ==
    {d \in Datasets :
        /\ d.has_group_col /\ ~d.categorical
        /\ unique(d) = <<"Business", "Eco">>
        /\ d.blocks[2].n >= MinSamplesShap
        /\ y_unique(d.blocks[2]) = 2}

\* the feature lists of a session: the full list and the one naming a column
\* the dataset lacks
SessionAttrLists == {SubSeq(AllAttrs, 1, MaxAttrs), <<MissingAttr, AllAttrs[1]>>}

\* the fits of a session throw or give one of two forests, the second being
\* the last in the order of the outcomes
SessionFitSeeds == {-1, 0, Len(ImportanceValues)}

\* the calls of a session
SessionRequest ==
    /\ TopReq.entry # "generate_subgroup_info_header" =>
          TopReq.service_attributes \in SessionAttrLists
    /\ TopReq.entry # "create_shap_analysis_for_dashboard" =>
          TopReq.selected_subgroup \in {"Business", "Eco"}
    /\ earlier.calls = 2 => TopReq = earlier.req
    /\ other # NoOther =>
          /\ TopReq = earlier.req \/ TopOf(other) = earlier.req
          /\ TopReq.selected_subgroup # TopOf(other).selected_subgroup

\* the library answers of a session
SessionAnswers ==
    \A i \in 1..Len(answers) :
        LET a == answers[i]
            k == Len(a.arguments.attrs)
        IN CASE a.arguments.trainer = "ServiceFactor" ->
                  a.outcome \in {FitOutcomeOf(k, s) : s \in SessionFitSeeds}
             [] a.arguments.trainer = "SubgroupRFAnalyzer" ->
                  a.outcome \in SessionFitSeeds
             [] a.arguments.trainer = "SHAPAnalyzer" ->
                  \/ a.outcome.throws
                  \/ a.outcome \in {Outcome(GenArray(<<1, k>>, s), s) : s \in FewSeeds}

SessionCallServiceFactor == CallServiceFactor /\ SessionRequest'

SessionCallShap == CallShap /\ SessionRequest'

SessionCallShapDashboard == CallShapDashboard /\ SessionRequest'

SessionCallSubgroupRF == CallSubgroupRF /\ SessionRequest'

SessionCallSubgroupInfoHeader == CallSubgroupInfoHeader /\ SessionRequest'

SessionRFTrain == RFTrain /\ SessionAnswers'

SessionShapTrain == ShapTrain /\ SessionAnswers'

SessionSubgroupRFAnalyze == SubgroupRFAnalyze /\ SessionAnswers'

\* a call returns to the caller, who keeps what it returned; the frame and
\* the analyzer of a dashboard function are gone, a SHAPAnalyzer the caller
\* built may be used again for the next call
SessionReturn ==
    /\ pc = "done"
    /\ dash.stage \in {"none", "returned"}
    /\ other = NoOther
    /\ earlier.calls < 2
    /\ earlier' = IF earlier.calls = 0
                  THEN [calls |-> 1, req |-> TopReq, result |-> result,
                        between_failed |-> FALSE]
                  ELSE [earlier EXCEPT !.calls = 2, !.between_failed = Failed(result)]
    /\ \E again \in BOOLEAN :
          stored_shap_values' = IF again /\ req.entry \in ShapEntries /\ dash.stage = "none"
                                THEN stored_shap_values ELSE <<>>
    /\ pc' = "idle"
    /\ req' = NoReq
    /\ selected_subgroup' = NoSubgroup
    /\ subgroup_data' = EmptyBlock
    /\ fit' = NoFit
    /\ raw' = None
    /\ train_checked' = None
    /\ shap_values' = None
    /\ checked' = None
    /\ feature_importance' = <<>>
    /\ result' = NoResult
    /\ feature_importance_results' = <<>>
    /\ accuracy_results' = <<>>
    /\ splits' = <<>>
    /\ trace' = <<>>
    /\ dash' = NoDash
    /\ UNCHANGED <<df, installed, answers, other>>

\* what belongs to one request: its frame, its result and its analyzer
Context ==
    [pc |-> pc, req |-> req, selected_subgroup |-> selected_subgroup,
     subgroup_data |-> subgroup_data, fit |-> fit, raw |-> raw,
     train_checked |-> train_checked, shap_values |-> shap_values,
     checked |-> checked, feature_importance |-> feature_importance,
     result |-> result, feature_importance_results |-> feature_importance_results,
     accuracy_results |-> accuracy_results, trace |-> trace, splits |-> splits,
     stored_shap_values |-> stored_shap_values, dash |-> dash]

\* a thread that has not called yet
FreshContext ==
    [pc |-> "idle", req |-> NoReq, selected_subgroup |-> NoSubgroup,
     subgroup_data |-> EmptyBlock, fit |-> NoFit, raw |-> None,
     train_checked |-> None, shap_values |-> None, checked |-> None,
     feature_importance |-> <<>>, result |-> NoResult,
     feature_importance_results |-> <<>>, accuracy_results |-> <<>>,
     trace |-> <<>>, splits |-> <<>>, stored_shap_values |-> <<>>, dash |-> NoDash]

\* one analyzer object of the module that every request works on
module_analyzer(own, concurrent) == concurrent

\* analyzer = SHAPAnalyzer(df, service_attributes) and analyzer =
\* SubgroupRFAnalyzer(df, service_attributes) are locals of the dashboard
\* functions: a request that is scheduled again finds its own analyzer
request_analyzer(own, concurrent) == own

\* the scheduler takes the running request off the processor and runs the
\* other thread; one of the two threads repeats the first call of the
\* session, the other one asks for another subgroup
SessionSwitch ==
    /\ earlier.calls = 1
    /\ pc # "idle"
    /\ IF other = NoOther
       THEN /\ pc # "done"
            /\ \/ TopReq = earlier.req
               \/ TopReq.selected_subgroup # earlier.req.selected_subgroup
       ELSE other.pc # "done"
    /\ LET resumed == IF other = NoOther THEN FreshContext ELSE other
       IN /\ other' = Context
          /\ pc' = resumed.pc
          /\ req' = resumed.req
          /\ selected_subgroup' = resumed.selected_subgroup
          /\ subgroup_data' = resumed.subgroup_data
          /\ fit' = resumed.fit
          /\ raw' = resumed.raw
          /\ train_checked' = resumed.train_checked
          /\ shap_values' = resumed.shap_values
          /\ checked' = resumed.checked
          /\ feature_importance' = resumed.feature_importance
          /\ result' = resumed.result
          /\ trace' = resumed.trace
          /\ splits' = resumed.splits
          /\ dash' = resumed.dash
          /\ feature_importance_results' =
                request_analyzer(resumed.feature_importance_results,
                                 feature_importance_results)
          /\ accuracy_results' =
                request_analyzer(resumed.accuracy_results, accuracy_results)
          /\ stored_shap_values' =
                request_analyzer(resumed.stored_shap_values, stored_shap_values)
    /\ UNCHANGED <<df, installed, answers, earlier>>

SessionInit ==
    /\ Init
    /\ df \in SessionDatasets
    /\ "sklearn" \in installed

SessionNext ==
    \/ SessionCallServiceFactor
    \/ ServiceFactorSelector
    \/ ServiceFactorDispatch
    \/ AverageRatings
    \/ RFGate
    \/ SessionRFTrain
    \/ RFPresent
    \/ SessionCallShap
    \/ ShapSelector
    \/ ShapGate
    \/ SessionShapTrain
    \/ ShapSummary
    \/ ShapInsights
    \/ ShapWaterfall
    \/ SessionCallSubgroupRF
    \/ SessionSubgroupRFAnalyze
    \/ SubgroupRFDashboard
    \/ SessionCallShapDashboard
    \/ ShapDashboardInsights
    \/ ShapDashboardReturn
    \/ SessionCallSubgroupInfoHeader
    \/ SubgroupInfoHeader
    \/ SessionReturn
    \/ SessionSwitch

SessionSpec == SessionInit /\ [][SessionNext]_vars

\* ------------------------------------------------------------ claims

\* the forest part of what a ServiceFactor.py entry point returned
RFPart ==
    IF result.kind = "insights" /\ result.text = "combined" THEN result.rf ELSE result

\* the native-importance path has passed its sufficiency check
GateAccepted ==
    /\ req.entry \in SFEntries
    /\ \/ pc \in {"rf_train", "rf_present"}
       \/ /\ pc = "done"
          /\ RFPart.text \in {"rf_importance", "Error in Random Forest analysis"}

\* the native-importance path has ended in its sufficiency check
GateRejected ==
    /\ req.entry \in SFEntries
    /\ pc = "done"
    /\ RFPart.text = "Insufficient data for Random Forest analysis"

BothClasses(sub) == sub.nsat > 0 /\ sub.nsat < sub.n

\* C1: the sufficiency check of create_rf_importance_chart and
\* generate_rf_insights lets a subset pass if and only if it has at least 30
\* rows and both label classes; 29 rows are rejected, 30 rows with both
\* classes pass, 50 rows of one class are rejected
C1_GateIffSufficient ==
    /\ GateAccepted => subgroup_data.n >= 30 /\ BothClasses(subgroup_data)
    /\ GateRejected => subgroup_data.n < 30 \/ ~BothClasses(subgroup_data)
    /\ GateAccepted \/ GateRejected =>
          /\ subgroup_data.n = 29 => GateRejected
          /\ subgroup_data.n = 30 /\ BothClasses(subgroup_data) => GateAccepted
          /\ subgroup_data.n = 50 /\ ~BothClasses(subgroup_data) => GateRejected

C1_Witness ==
    /\ pc = "rf_train"
    /\ subgroup_data.n = 30
    /\ BothClasses(subgroup_data)

\* the group values that are not missing, in the order of sf_groups
ValidGroups(d) == SelectSeq(sf_groups(d), LAMBDA g : g # NaN)

\* the selector of ServiceFactor.py has resolved a group for the request
SelectorResolved ==
    /\ req.entry \in SFEntries
    /\ pc \notin {"idle", "sf_selector"}
    /\ df.has_group_col
    /\ req.service_attributes # <<>>

\* C2: in create_service_factors_chart and generate_service_insights, when
\* the grouping column has a valid (non-missing) group value, a request for
\* None or for a value that is not valid resolves to the first valid value,
\* a request for a valid value resolves to that value, and the selector does
\* not end in its no-subgroup result
C2_SelectorFallsBackToFirstValid ==
    SelectorResolved /\ ValidGroups(df) # <<>> =>
        /\ selected_subgroup =
              IF req.selected_subgroup = NoSubgroup
                 \/ ~InList(req.selected_subgroup, ValidGroups(df))
              THEN ValidGroups(df)[1]
              ELSE req.selected_subgroup
        /\ result.text # "No subgroup"

\* the explainer returned a list of per-class arrays and the trainer went on
RawIsList == raw.kind = "list"

\* the element a list of one or two per-class arrays stands for
PositiveClass(l) == IF Len(l.elems) = 2 THEN l.elems[2] ELSE l.elems[1]

\* the doubled-width cut of the trainer applied to an array of two axes
AfterTrainerCut(a, k) == IF a.shape[2] = 2 * k THEN slice_cols(a, k) ELSE a

ShapAttributed ==
    /\ pc = "done"
    /\ req.entry \in {"create_shap_summary_chart", "generate_shap_insights"}
    /\ checked # None
    /\ result.text # "Cannot fix feature mismatch"

\* the array the raw output stands for once a list of one or two per-class
\* arrays is replaced by its element
RawArray ==
    IF raw.kind = "list" /\ Len(raw.elems) \in {1, 2} THEN PositiveClass(raw) ELSE raw

\* the sum of the absolute values of column j (from 1) of an array of two axes
ColumnAbsSum(a, j) ==
    SumTo([i \in 1..a.shape[1] |-> Abs(a.data[(i - 1) * a.shape[2] + j])],
          a.shape[1])

\* C4: a 1-D raw result is handed on as a single row, and a raw result of
\* 2k columns (of shape (n, 2k), or 1-D of length 2k) gives an attribution
\* of exactly k entries, keyed by the k feature names in order, whose
\* magnitudes are computed from columns 0..k-1 only
C4_DoubledWidthKeepsFirstHalf ==
    ShapAttributed /\ RawArray.kind = "ndarray" =>
        LET k == Len(req.service_attributes)
            a == RawArray
            row == IF ndim(a) = 1 THEN NdArray(<<1, a.shape[1]>>, a.data) ELSE a
        IN /\ ndim(a) = 1 =>
                 /\ ndim(shap_values) = 2
                 /\ shap_values.shape[1] = 1
                 /\ \A j \in 1..shap_values.shape[2] : shap_values.data[j] = a.data[j]
           /\ ndim(a) \in {1, 2} /\ row.shape[2] = 2 * k =>
                 /\ Len(feature_importance) = k
                 /\ \A j \in 1..k :
                       /\ feature_importance[j].name = req.service_attributes[j]
                       /\ feature_importance[j].value = ColumnAbsSum(row, j)

C4_Witness ==
    /\ ShapAttributed
    /\ raw.kind = "ndarray"
    /\ ndim(raw) = 2
    /\ raw.shape[1] >= 2
    /\ raw.shape[2] = 2 * Len(req.service_attributes)
    /\ ColumnAbsSum(raw, 1) # ColumnAbsSum(raw, Len(req.service_attributes) + 1)
    /\ result.kind = "figure"
    /\ Len(result.factors) = Len(req.service_attributes)

\* the consumer named by entry has run on a raw output of two axes whose
\* column count is neither k nor 2k and leaves a non-zero leading magnitude
Mismatched(entry) ==
    /\ pc = "done"
    /\ req.entry = entry
    /\ checked # None
    /\ RawArray.kind = "ndarray"
    /\ ndim(RawArray) = 2
    /\ RawArray.shape[2] \notin {Len(req.service_attributes),
                                 2 * Len(req.service_attributes)}
    /\ \E j \in 1..Min(RawArray.shape[2], Len(req.service_attributes)) :
          ColumnAbsSum(RawArray, j) > 0

\* the entry point went on with the leading features: its result is no
\* placeholder and the attribution holds the first min(c, k) feature names
\* with the magnitudes of the first min(c, k) columns
ProceedsWithLeading ==
    LET m == Min(RawArray.shape[2], Len(req.service_attributes))
    IN /\ result.kind \in {"figure", "insights"}
       /\ Len(feature_importance) = m
       /\ \A j \in 1..m :
             /\ feature_importance[j].name = req.service_attributes[j]
             /\ feature_importance[j].value = ColumnAbsSum(RawArray, j)

\* C5: in create_shap_summary_chart and in generate_shap_insights alike, a
\* column count c that is neither k nor 2k is truncated to the first k
\* columns when c > k and proceeds with the first c feature names and their
\* c magnitudes when c < k; neither case ends in an error or an unavailable
\* result
C5_MismatchProceeds ==
    /\ Mismatched("create_shap_summary_chart") => ProceedsWithLeading
    /\ Mismatched("generate_shap_insights") => ProceedsWithLeading

\* create_shap_summary_chart or generate_shap_insights has returned after
\* analyze_subgroup_shap resolved a subgroup and called the trainer
ExtractorReturned ==
    /\ pc = "done"
    /\ req.entry \in {"create_shap_summary_chart", "generate_shap_insights"}
    /\ selected_subgroup # NoSubgroup
    /\ has_columns(req.service_attributes)

\* C6: once a subgroup is resolved for a feature list of existing columns,
\* create_shap_summary_chart and
\* generate_shap_insights never raise to their caller, whatever the explainer
\* returned (a list of any length, an array of any number of axes and any
\* column count, or an exception); with the explainer library missing they
\* return the unavailable result, and when zero features survive the
\* reconciliation they return a placeholder
C6_ExtractorNeverRaises ==
    ExtractorReturned =>
        /\ result.kind \in {"placeholder", "figure", "insights"}
        /\ "shap" \notin installed => result = shap_unavailable(req.entry)
        /\ raw # None /\ feature_importance = <<>> => result.kind = "placeholder"
        /\ raw.kind = "ndarray" /\ ndim(raw) = 0 => result.kind = "placeholder"

C6_Witness ==
    /\ ExtractorReturned
    /\ req.entry = "create_shap_summary_chart"
    /\ raw.kind = "ndarray"
    /\ raw.shape = <<1, 0>>
    /\ result = Placeholder("No feature importance data available")

\* C7: every attribution built (the native importances of
\* create_rf_importance_chart and generate_rf_insights, the mean absolute
\* SHAP values of create_shap_summary_chart and generate_shap_insights after
\* the reconciliation) has at most len(service_attributes) entries, its keys
\* are the leading feature names in list order, and every magnitude is
\* non-negative
C7_AttributionKeysAndSigns ==
    InList("extractor", trace) =>
        /\ Len(feature_importance) <= Len(req.service_attributes)
        /\ \A j \in 1..Len(feature_importance) :
              /\ feature_importance[j].name = req.service_attributes[j]
              /\ feature_importance[j].name \in Range(req.service_attributes)
              /\ feature_importance[j].value >= 0

\* an attribution of fewer entries than features, from a negative SHAP value
C7_Witness ==
    /\ ShapAttributed
    /\ Len(feature_importance) >= 1
    /\ Len(feature_importance) < Len(req.service_attributes)
    /\ raw.kind = "ndarray"
    /\ ndim(raw) = 2
    /\ raw.data[1] < 0
    /\ feature_importance[1].value > 0

\* the result is a ranked bar chart of create_average_ratings_chart,
\* create_rf_importance_chart or create_shap_summary_chart
RankedFigure ==
    /\ result.kind = "figure"
    /\ result.text \in {"average", "rf_importance", "shap_summary"}

\* the position of a feature name in the requested service-attribute list
ListPosition(name) ==
    CHOOSE i \in 1..Len(req.service_attributes) : req.service_attributes[i] = name

\* C8: the ranking of the average ratings, of the native importances and of
\* the SHAP summary holds every factor of the attribution once, orders the
\* factors by magnitude descending, and keeps two factors of equal magnitude
\* in their order in the service-attribute list
C8_RankingDescendingStable ==
    RankedFigure =>
        /\ Len(result.factors) = Len(feature_importance)
        /\ Len(result.importances) = Len(feature_importance)
        /\ \A i \in 1..Len(result.factors) :
              Item(result.factors[i], result.importances[i]) \in Range(feature_importance)
        /\ \A i, j \in 1..Len(result.factors) :
              i < j =>
                 /\ result.importances[i] >= result.importances[j]
                 /\ result.importances[i] = result.importances[j] =>
                       ListPosition(result.factors[i]) < ListPosition(result.factors[j])

\* a ranking with a tie between its first two factors
C8_Witness ==
    /\ RankedFigure
    /\ Len(result.factors) >= 2
    /\ result.importances[1] = result.importances[2]
    /\ result.importances[1] > 0

\* the bar chart of native importances the request returned, if any: the
\* figure of create_rf_importance_chart or of create_single_subgroup_chart
NativeChart ==
    IF result.kind = "pair" THEN result.chart ELSE result

HasNativeChart ==
    /\ NativeChart.kind = "figure"
    /\ NativeChart.text \in {"rf_importance", "rf_subgroup"}

\* C9: the colour of a native importance is a step function with inclusive
\* lower thresholds: at least 0.15 the highest band, at least 0.10 and below
\* 0.15 the high band, at least 0.05 and below 0.10 the medium band, the low
\* band otherwise; exactly 0.15 is highest and 0.149999 is high; a larger
\* importance never gets a lower band than a smaller one
C9_NativeColourBands ==
    HasNativeChart =>
        LET v == NativeChart.importances
            c == NativeChart.colors
        IN /\ Len(c) = Len(v)
           /\ \A i \in 1..Len(v) :
                 /\ v[i] >= 150000 => c[i] = "#FF6B6B"
                 /\ v[i] >= 100000 /\ v[i] < 150000 => c[i] = "#FFA726"
                 /\ v[i] >= 50000 /\ v[i] < 100000 => c[i] = "#FFD54F"
                 /\ v[i] < 50000 => c[i] = "#81C784"
           /\ \A i, j \in 1..Len(v) :
                 v[i] >= v[j] => BandRank(c[i]) >= BandRank(c[j])

\* a chart of create_rf_importance_chart with an importance of 0.149999
C9_Witness ==
    /\ HasNativeChart
    /\ NativeChart.text = "rf_importance"
    /\ \E i \in 1..Len(NativeChart.importances) :
          /\ NativeChart.importances[i] = 149999
          /\ NativeChart.colors[i] = "#FFA726"

\* the result is the bar chart of create_shap_summary_chart
ShapSummaryChart ==
    /\ result.kind = "figure"
    /\ result.text = "shap_summary"

\* C10: in the SHAP summary ranking the colour of a factor is decided on its
\* magnitude divided by the largest magnitude of the ranking: at least 0.8
\* the highest band, at least 0.6 the high band, at least 0.4 the medium
\* band, the low band otherwise
C10_ShapColourOnNormalized ==
    ShapSummaryChart =>
        LET v == result.importances
            c == result.colors
        IN /\ Len(c) = Len(v)
           /\ \E h \in 1..Len(v) :
                 /\ \A i \in 1..Len(v) : v[h] >= v[i]
                 /\ v[h] > 0
                 /\ \A i \in 1..Len(v) :
                       /\ 10 * v[i] >= 8 * v[h] => c[i] = "#FF6B6B"
                       /\ 10 * v[i] >= 6 * v[h] /\ 10 * v[i] < 8 * v[h] =>
                             c[i] = "#FFA726"
                       /\ 10 * v[i] >= 4 * v[h] /\ 10 * v[i] < 6 * v[h] =>
                             c[i] = "#FFD54F"
                       /\ 10 * v[i] < 4 * v[h] => c[i] = "#81C784"

\* a factor at exactly 0.8 of the largest magnitude
C10_Witness ==
    /\ ShapSummaryChart
    /\ \E i \in 1..Len(result.importances) :
          /\ 10 * result.importances[i] = 8 * result.importances[1]
          /\ result.importances[i] > 0
          /\ result.colors[i] = "#FF6B6B"

\* the insight summaries of a fitted model in what the request returned:
\* the forest part of generate_service_insights, the result of
\* generate_shap_insights, the insights of create_rf_analysis_for_dashboard
ModelInsights ==
    LET parts == IF result.kind = "pair" THEN {result.insights}
                 ELSE IF result.kind = "insights" /\ result.text = "combined"
                 THEN {result.rf}
                 ELSE {result}
    IN {p \in parts : p.kind = "insights"
                      /\ p.text \in {"rf_importance", "shap", "rf_subgroup"}}

\* C11: in generate_rf_insights of ServiceFactor.py, in generate_shap_insights
\* and in generate_rf_insights of SubgroupRFAnalysis.py alike the
\* model-quality label depends on the accuracy alone: at least 0.85 is
\* Excellent, at least 0.75 and below 0.85 is Good, anything lower is Fair
C11_ModelQualityLabel ==
    \A p \in ModelInsights :
        /\ p.accuracy >= 850000 => p.model_quality = "Excellent"
        /\ p.accuracy >= 750000 /\ p.accuracy < 850000 => p.model_quality = "Good"
        /\ p.accuracy < 750000 => p.model_quality = "Fair"

\* the forest insights of generate_service_insights at exactly 0.85
C11_Witness ==
    \E p \in ModelInsights :
        /\ p.text = "rf_importance"
        /\ p.accuracy = 850000
        /\ p.model_quality = "Excellent"

\* the number of entries of the attribution that satisfy AtLeastHigh
HighBandCount(AtLeastHigh(_)) ==
    Cardinality({i \in 1..Len(feature_importance) :
                    AtLeastHigh(feature_importance[i].value)})

\* the largest magnitude of the attribution
LargestMagnitude == MaxOf(Values(feature_importance))

\* the strategy label the summary must carry for a high-impact count
StrategyFor(count) ==
    IF count <= 3 THEN "focus" ELSE IF count <= 6 THEN "balanced" ELSE "broad"

\* C12: every insight summary of a fitted model, native or SHAP, names the
\* top-ranked factor, gives as its high-impact count the number of factors
\* in the high colour band or above (importance at least 0.10 for the native
\* importances, magnitude at least 0.6 of the largest for SHAP), and carries
\* the strategy label of that count: focus up to 3, balanced for 4 to 6,
\* broad above
C12_SummaryCountsHighBand ==
    \A p \in ModelInsights :
        LET NativeHigh(v) == v >= 100000
            ShapHigh(v) == 10 * v >= 6 * LargestMagnitude
            count == IF p.text = "shap" THEN HighBandCount(ShapHigh)
                     ELSE HighBandCount(NativeHigh)
        IN /\ \E i \in 1..Len(feature_importance) :
                 /\ feature_importance[i].name = p.top_factor
                 /\ feature_importance[i].value = LargestMagnitude
           /\ p.high_impact = count
           /\ p.strategy = StrategyFor(count)

\* ------------------------------------------------------------------ C13

\* the steps of the current request without the average-rating step, which
\* is not part of the attribution pipeline
Stages == SelectSeq(trace, LAMBDA e : e # "ratings")

StageRank(e) ==
    CASE e = "selector" -> 1
      [] e = "gate" -> 2
      [] e = "split_stratified" -> 3
      [] e = "split_plain" -> 4
      [] e \in {"fit", "fit_failed"} -> 5
      [] e = "explainer" -> 6
      [] e = "extractor" -> 7
      [] e = "presenter" -> 8

Ran(e) == InList(e, Stages)

\* the row count the sufficiency check of the request's path asks for
PathMinRows == IF req.entry \in SFEntries THEN 30 ELSE 50

IsFit(e) == e \in {"fit", "fit_failed"}

IsSplit(e) == e \in {"split_stratified", "split_plain"}

\* C14: every training first calls the stratified split with test size 0.3
\* and seed 42; the plain split is called only right after a stratified
\* split that raised, with the same seed and test size on the same rows; the
\* split that did not raise is followed by exactly one fit
C14_StratifiedThenPlain ==
    /\ \A i \in 1..Len(splits) :
          /\ splits[i].random_state = 42 /\ splits[i].test_size = 30
          /\ 10 * splits[i].n_test >= 3 * (splits[i].n_test + splits[i].n_train)
          /\ 10 * (splits[i].n_test - 1) < 3 * (splits[i].n_test + splits[i].n_train)
          /\ ~splits[i].stratify =>
                /\ i > 1
                /\ splits[i - 1].stratify /\ splits[i - 1].raised
                /\ splits[i - 1].random_state = splits[i].random_state
                /\ splits[i - 1].test_size = splits[i].test_size
                /\ splits[i - 1].n_test = splits[i].n_test
                /\ splits[i - 1].n_train = splits[i].n_train
                /\ ~splits[i].raised
          /\ splits[i].raised => i < Len(splits) /\ ~splits[i + 1].stratify
    /\ splits # <<>> => splits[1].stratify
    /\ Len(SelectSeq(trace, IsSplit)) = Len(splits)
    /\ Len(SelectSeq(trace, IsFit))
          = Len(SelectSeq(splits, LAMBDA a : ~a.raised))
    /\ \A i \in 1..Len(trace) :
          /\ IsFit(trace[i]) => i > 1 /\ IsSplit(trace[i - 1])
          /\ trace[i] = "split_plain" => i > 1 /\ trace[i - 1] = "split_stratified"
          /\ trace[i] = "split_stratified" =>
                i < Len(trace) /\ (trace[i + 1] = "split_plain" \/ IsFit(trace[i + 1]))
          /\ trace[i] = "split_plain" => i < Len(trace) /\ IsFit(trace[i + 1])

\* a native-importance chart whose model was fitted on the plain split after
\* the stratified split raised
C14_Witness ==
    /\ pc = "done"
    /\ result.kind = "figure" /\ result.text = "rf_importance"
    /\ Len(splits) = 2 /\ splits[1].raised /\ ~splits[2].stratify
    /\ Ran("fit")

\* ------------------------------------------------------------------ C15

\* the part of the returned value that reports on the model
ModelPart ==
    IF result.kind = "pair" THEN result.insights ELSE RFPart

\* C15: on every attribution path (ServiceFactor chart and insights,
\* SubgroupRFAnalyzer, SHAPAnalyzer) a fit that throws ends the request with
\* an error result and never with an exception that reaches the caller, and
\* no subset is fitted a second time: nothing is fitted after a failed fit,
\* and ServiceFactor and SHAPAnalyzer fit at most once per request
C15_FitFailureIsErrorResult ==
    /\ pc = "done" /\ Ran("fit_failed") =>
          /\ result.kind # "raised"
          /\ ModelPart.kind = "placeholder"
    /\ \A i \in 1..Len(trace) :
          trace[i] = "fit_failed" => \A j \in (i + 1)..Len(trace) : ~IsFit(trace[j])
    /\ req.entry \in SFEntries \cup ShapEntries => Len(SelectSeq(trace, IsFit)) <= 1
    /\ Len(SelectSeq(trace, IsFit)) <= Len(SelectSeq(trace, LAMBDA e : e = "gate"))

\* ------------------------------------------------------------------ C16

\* a SHAP request that resolved a subgroup and ended before any attribution
\* was extracted
ShapGaveUp ==
    /\ pc = "done"
    /\ req.entry \in ShapEntries
    /\ selected_subgroup # NoSubgroup
    /\ has_columns(req.service_attributes)
    /\ ~Ran("extractor")

\* why the request gave up, in the order in which the trainer checks; a
\* throwing fit and a throwing explainer are the same outcome of the trainer
GaveUpBecause ==
    IF ~({"sklearn", "shap"} \subseteq installed) THEN {"missing_dependency"}
    ELSE IF subgroup_data.n < 50 THEN {"too_few_rows"}
    ELSE IF ~BothClasses(subgroup_data) THEN {"single_class"}
    ELSE IF req.service_attributes = <<>> THEN {"no_features"}
    ELSE IF Ran("fit_failed") THEN {"training_failure", "explanation_failure"}
    ELSE {"shape_mismatch"}

\* C16: the value a SHAP entry point returns when the trainer gives up
\* identifies the cause: a missing dependency, too few rows, single-class
\* data, a training failure and an unrecoverable shape mismatch each give a
\* value that no other cause gives, and a failure of the explanation step is
\* told apart from a failure of the fit
C16_SignalIdentifiesCause ==
    ShapGaveUp =>
        /\ \A c \in GaveUpBecause : result = shap_failure_signal(req.entry, c)
        /\ Cardinality(GaveUpBecause) = 1
        /\ \A c \in ShapFailureCauses \ GaveUpBecause :
              shap_failure_signal(req.entry, c) # result

\* ------------------------------------------------------------------ C17

\* C17: whenever the sufficiency check of the native-importance mode rejects
\* a subset, the chart or the summary that is returned carries the number
\* of rows of the subset and the number of distinct label classes in it
C17_RejectionCarriesCounts ==
    GateRejected =>
        /\ {"samples", "outcome_types"} \subseteq DOMAIN RFPart
        /\ RFPart.samples = subgroup_data.n
        /\ RFPart.outcome_types = (IF subgroup_data.nsat > 0 THEN 1 ELSE 0)
                                  + (IF subgroup_data.nsat < subgroup_data.n THEN 1 ELSE 0)

\* ------------------------------------------------------------------ C18

SelectorEntries == SFEntries \cup {"generate_subgroup_info_header"}

\* the selector of ServiceFactor.py has looked at the grouping column
SelectorRan ==
    /\ req.entry \in SelectorEntries
    /\ Ran("selector")
    /\ df.has_group_col
    /\ req.entry \in SFEntries => req.service_attributes # <<>>

\* the values of the grouping column in the order in which the rows show them
FirstSeen == [i \in 1..Len(df.blocks) |-> df.blocks[i].g]

\* the order the claim names: the categories of a categorical column, the
\* first-seen order of any other column
ClaimedOrder == IF df.categorical THEN df.categories ELSE FirstSeen

\* C18: the selector of create_service_factors_chart,
\* generate_service_insights and generate_subgroup_info_header takes the
\* group values in category order when the column is categorical and in
\* first-seen order otherwise: a request for None or for a value the column
\* does not offer resolves to the first category resp. the first-seen value,
\* whatever the alphabetical order is, and a request for an offered value
\* resolves to that value
C18_CategoryOrFirstSeenOrder ==
    SelectorRan /\ ClaimedOrder # <<>> =>
        selected_subgroup =
            IF req.selected_subgroup # NoSubgroup
               /\ InList(req.selected_subgroup, ClaimedOrder)
            THEN req.selected_subgroup
            ELSE ClaimedOrder[1]

\* a plain column that shows "Eco" before "Business": the header falls back
\* to "Eco", not to the alphabetically first "Business"
C18_Witness ==
    /\ pc = "done"
    /\ req.entry = "generate_subgroup_info_header"
    /\ req.selected_subgroup = "Premium"
    /\ ~df.categorical
    /\ FirstSeen = <<"Eco", "Business">>
    /\ selected_subgroup = "Eco"
    /\ result.kind = "header" /\ result.subgroup = "Eco"

\* ------------------------------------------------------------------ C19

\* an entry point has returned to its caller, or raised
EntryPointEnded == pc = "done"

\* a value that shows no analysis: a placeholder, or the empty or the
\* annotated figure next to a placeholder
IsPlaceholderResult(r) ==
    \/ r.kind = "placeholder"
    \/ /\ r.kind = "pair"
       /\ \/ r.chart.kind = "figure" /\ r.chart.text = "empty"
          \/ r.chart.kind = "placeholder"
       /\ r.insights.kind = "placeholder"

\* C19: when the dataset has no grouping column, every entry point
\* (create_service_factors_chart, generate_service_insights,
\* generate_subgroup_info_header, the SHAP entry points through
\* analyze_subgroup_shap, create_shap_analysis_for_dashboard,
\* create_rf_analysis_for_dashboard) returns a placeholder; it resolves no subgroup, runs no sufficiency check, no split
\* and no fit, and raises nothing
C19_AbsentColumnGivesPlaceholder ==
    EntryPointEnded /\ ~df.has_group_col =>
        /\ result.kind # "raised"
        /\ IsPlaceholderResult(result)
        /\ selected_subgroup = NoSubgroup
        /\ subgroup_data = EmptyBlock
        /\ \A i \in 1..Len(trace) : trace[i] = "selector"
        /\ splits = <<>>
        /\ fit = NoFit
        /\ feature_importance_results = <<>>

\* create_rf_analysis_for_dashboard asked for "Business" on a dataset
\* without the grouping column
C19_Witness ==
    /\ EntryPointEnded
    /\ ~df.has_group_col
    /\ req.entry = "create_rf_analysis_for_dashboard"
    /\ req.selected_subgroup = "Business"
    /\ result.kind = "pair"

\* ------------------------------------------------------------------ C20

\* the rows of the dataset whose group value equals the resolved one; a
\* missing value equals nothing
RowsOfSelected ==
    {i \in 1..Len(df.blocks) :
        df.blocks[i].g # NaN /\ df.blocks[i].g = selected_subgroup /\ df.blocks[i].n > 0}

\* C20: when the grouping column exists and the selector of
\* create_service_factors_chart, generate_service_insights or
\* generate_subgroup_info_header finds no rows to work on (the dataset is
\* empty, the column holds only missing values, or the resolved category has
\* no rows), the entry point ends in the placeholder for an empty subgroup;
\* no sufficiency check, no split and no fit is run and nothing is raised
C20_NoRowsGivesPlaceholder ==
    SelectorRan /\ RowsOfSelected = {} =>
        /\ pc = "done"
        /\ result.kind = "placeholder"
        /\ result.text \in {"No subgroup", "No data for subgroup"}
        /\ trace = <<"selector">>
        /\ splits = <<>>
        /\ fit = NoFit

\* create_service_factors_chart on a plain column that holds only missing
\* values
C20_Witness ==
    /\ pc = "done"
    /\ req.entry = "create_service_factors_chart"
    /\ req.service_attributes # <<>>
    /\ ~df.categorical
    /\ FirstSeen = <<NaN>>
    /\ result = Placeholder("No data for subgroup")

\* ------------------------------------------------------------------ C21

RECURSIVE RowCount(_, _)
\* the number of rows of the first i group values of the dataset
RowCount(d, i) == IF i = 0 THEN 0 ELSE d.blocks[i].n + RowCount(d, i - 1)

\* C21: the subset of a resolved subgroup holds only rows whose group value
\* is the effective one and has at most as many rows as the dataset, and no
\* step of any request changes the dataset
C21_SubsetOfUnchangedDataset ==
    /\ [](subgroup_data.n > 0 =>
             /\ subgroup_data.g = selected_subgroup
             /\ subgroup_data.n <= RowCount(df, Len(df.blocks))
             /\ \E i \in 1..Len(df.blocks) : df.blocks[i] = subgroup_data)
    /\ [][df' = df]_vars

\* a SHAP summary chart for "Eco", which the dataset shows after "Business"
C21_Witness ==
    /\ pc = "done"
    /\ req.entry = "create_shap_summary_chart"
    /\ result.kind = "figure"
    /\ Len(df.blocks) = 2
    /\ df.blocks[2].g = "Eco"
    /\ selected_subgroup = "Eco"
    /\ subgroup_data = df.blocks[2]
    /\ subgroup_data.n < RowCount(df, 2)

\* ------------------------------------------------------------------ C26

\* the returned value comes with a held-out accuracy
HasAccuracy(r) == "has_accuracy" \in DOMAIN r /\ r.has_accuracy

\* C26: create_service_factors_chart returns an accuracy next to the figure
\* if and only if a forest was fitted and scored in the request, and the
\* accuracy is the score of that forest; in 'rf_importance' mode this is
\* exactly the success outcome, and a rejection by the sufficiency check, a
\* missing library or a failed fit return no accuracy
C26_AccuracyIffTrained ==
    pc = "done" /\ req.entry = "create_service_factors_chart" =>
        /\ HasAccuracy(result) <=> Ran("fit")
        /\ HasAccuracy(result) =>
              /\ req.chart_type = "rf_importance"
              /\ result.kind = "figure"
              /\ result.accuracy = fit.accuracy
        /\ req.chart_type = "rf_importance" /\ result.kind = "figure" =>
              HasAccuracy(result)

\* an 'rf_importance' chart returned with the accuracy 0.85 of its forest
C26_Witness ==
    /\ pc = "done"
    /\ req.entry = "create_service_factors_chart"
    /\ req.chart_type = "rf_importance"
    /\ HasAccuracy(result)
    /\ result.accuracy = 850000
    /\ Ran("fit")

\* ------------------------------------------------------------------ C28

AllLibraries == {"sklearn", "shap"}

\* train_model_and_calculate_shap turns the subset away before the split
ShapTurnsAway(sub, attrs) == shap_rejects(AllLibraries, sub, attrs)

\* train_rf_for_subgroup turns the subset away before the split
SubgroupRFTurnsAway(sub, attrs) ==
    train_rf_for_subgroup(sub, attrs, FitOutcomeOf(Len(attrs), 0)).events = <<"gate">>

\* C28: the sufficiency decision is the same for every strategy: a subset
\* that the check of create_rf_importance_chart / generate_rf_insights lets
\* pass is let pass by train_model_and_calculate_shap and by
\* train_rf_for_subgroup, and a subset it rejects is rejected by both
C28_SameDecisionInEveryStrategy ==
    /\ GateAccepted =>
          /\ ~ShapTurnsAway(subgroup_data, req.service_attributes)
          /\ ~SubgroupRFTurnsAway(subgroup_data, req.service_attributes)
    /\ GateRejected =>
          /\ ShapTurnsAway(subgroup_data, req.service_attributes)
          /\ SubgroupRFTurnsAway(subgroup_data, req.service_attributes)

\* ------------------------------------------------------------------ C29

\* create_service_factors_chart has ended on a subgroup that has rows
ChartEndedOnSubgroup ==
    /\ pc = "done"
    /\ req.entry = "create_service_factors_chart"
    /\ subgroup_data.n > 0

\* the strategy generate_service_insights dispatches to for a chart type
InsightsStrategy(chart_type) ==
    IF chart_type \in {"average", "rf_importance"} THEN chart_type ELSE "combined"

\* C29: for 'average', 'rf_importance' and any other chart type, on a subgroup
\* that has rows, create_service_factors_chart returns a figure or a
\* placeholder and raises nothing, and a figure it returns is the one of the
\* strategy generate_service_insights takes for that chart type
C29_ChartNeverRaises ==
    ChartEndedOnSubgroup =>
        /\ result.kind \in {"figure", "placeholder"}
        /\ result.kind = "figure" => result.text = InsightsStrategy(req.chart_type)

\* ------------------------------------------------------------------ C30

\* create_shap_summary_chart has matched at least one feature with a
\* magnitude
SummaryAttributed ==
    /\ pc = "done"
    /\ req.entry = "create_shap_summary_chart"
    /\ Ran("extractor")
    /\ feature_importance # <<>>

\* C30: for every non-empty SHAP attribution, one of all-zero magnitudes
\* included, create_shap_summary_chart returns a ranked bar chart whose
\* first bar is in the highest colour band and in which no bar is in a
\* higher band than a bar above it
C30_SummaryChartBandsDescend ==
    SummaryAttributed =>
        /\ result.kind = "figure"
        /\ result.colors[1] = Bands[Len(Bands)]
        /\ \A i, j \in 1..Len(result.colors) :
              i < j => BandRank(result.colors[i]) >= BandRank(result.colors[j])

\* ------------------------------------------------------------------ C27

\* the group values analyze_subgroup_shap, create_shap_analysis_for_dashboard
\* and create_rf_analysis_for_dashboard choose from
ShapPathGroups ==
    IF unique(df) = <<NaN>> THEN <<NaN>> ELSE sorted_groups(unique(df))

\* C27: for the same dataset, grouping column and requested value, the
\* group value that create_service_factors_chart / generate_service_insights
\* resolve is the one that analyze_subgroup_shap and the two dashboard
\* functions resolve, the fallback for None or an unknown value included
C27_SameGroupOnBothPaths ==
    SelectorRan /\ req.entry \in SFEntries =>
        /\ ~sort_raises(unique(df))
        /\ shap_resolve(ShapPathGroups, req.selected_subgroup) = selected_subgroup

\* ------------------------------------------------------------------ C24

\* the listed attributes that are columns of the dataset
RemainingAttrs == SelectSeq(req.service_attributes, has_column)

\* a request that lists an attribute the dataset has no column for has
\* ended; nothing else stands in the way of a ranking: the subgroup has 50
\* rows or more and both classes, both libraries are installed, and the
\* chart type is one the chart entry point knows
EndedWithMissingAttribute ==
    /\ pc = "done"
    /\ req.entry \in SFEntries \cup {"create_shap_summary_chart", "generate_shap_insights"}
    /\ ~has_columns(req.service_attributes)
    /\ RemainingAttrs # <<>>
    /\ subgroup_data.n >= 50 /\ BothClasses(subgroup_data)
    /\ AllLibraries \subseteq installed
    /\ req.entry = "create_service_factors_chart" => req.chart_type # "combined"

\* the charts and summaries a returned value consists of
ResultParts ==
    IF result.kind = "insights" /\ result.text = "combined"
    THEN {result.avg, result.rf}
    ELSE {result}

\* C24: in the average-rating, the native-importance and the SHAP mode, a
\* listed attribute that is no column of the dataset is left out silently:
\* the request returns a ranking over the remaining attributes, never an
\* error result and never an exception
C24_MissingAttributeExcluded ==
    EndedWithMissingAttribute =>
        \A part \in ResultParts :
            /\ part.kind \in {"figure", "insights"}
            /\ part.kind = "figure" => Range(part.factors) = Range(RemainingAttrs)

\* ------------------------------------------------------------------ C22

\* a request that trains a forest: native importances or SHAP
AttributionRequest(r) ==
    \/ r.entry \in ShapEntries
    \/ r.entry \in {"create_shap_analysis_for_dashboard",
                    "create_rf_analysis_for_dashboard"}
    \/ r.entry \in SFEntries /\ r.chart_type = "rf_importance"

\* the running call has returned to its caller
CallReturned == pc = "done" /\ dash.stage \in {"none", "returned"}

\* C22: an attribution request made again in the same session, with the same
\* dataset, group value, strategy and feature list, returns what the first
\* one returned: the same factors in the same order with the same magnitudes
\* and colours, and the same accuracy; this holds right after the first
\* request and after another request in between, on the SHAPAnalyzer of the
\* first request and on a new analyzer
C22_RepeatedRequestSameOutput ==
    /\ CallReturned
    /\ other = NoOther
    /\ earlier.calls >= 1
    /\ TopReq = earlier.req
    /\ AttributionRequest(TopReq)
    => result = earlier.result

\* the native-importance chart of 'Eco' drawn for the second time, after
\* another request in between: the same ranked figure with its accuracy
C22_Witness ==
    /\ CallReturned
    /\ other = NoOther
    /\ earlier.calls = 2
    /\ req = earlier.req
    /\ req.entry = "create_service_factors_chart"
    /\ req.chart_type = "rf_importance"
    /\ req.selected_subgroup = "Eco"
    /\ result.kind = "figure"
    /\ result.has_accuracy
    /\ Len(result.factors) = MaxAttrs
    /\ result = earlier.result

\* ------------------------------------------------------------------ C23

\* the two dashboard functions
DashboardEntries ==
    {"create_shap_analysis_for_dashboard", "create_rf_analysis_for_dashboard"}

\* two requests are under way, or were, in two threads
Concurrent == other # NoOther

\* the request of the other thread has returned to its caller
OtherReturned == other.pc = "done" /\ other.dash.stage \in {"none", "returned"}

\* C23: requests share no model, explainer or attribution result. A call of a
\* dashboard function begins with an analyzer of its own whose dictionaries
\* are empty; and when two requests for different subgroups run in two
\* threads, in any interleaving of their steps, the one that repeats the
\* first call of the session returns what that call returned when it ran
\* alone. The dataset is the same before and after every step
C23_InterleavedEqualsAlone ==
    /\ [](Concurrent /\ CallReturned /\ TopReq = earlier.req
             => result = earlier.result)
    /\ [](Concurrent /\ OtherReturned /\ TopOf(other) = earlier.req
             => other.result = earlier.result)
    /\ [][pc = "idle" /\ pc' # "idle" /\ TopReq'.entry \in DashboardEntries
             => IF TopReq'.entry = "create_shap_analysis_for_dashboard"
                THEN stored_shap_values' = <<>>
                ELSE /\ feature_importance_results' = <<>>
                     /\ accuracy_results' = <<>>]_vars
    /\ [][df' = df]_vars

\* create_rf_analysis_for_dashboard for 'Eco' has returned its chart with the
\* ranked factors, the same as when it ran alone, after the thread had been
\* taken off the processor between its analysis and its chart while
\* create_rf_analysis_for_dashboard for 'Business' ran in the other thread
C23_Witness ==
    /\ Concurrent
    /\ CallReturned
    /\ req = earlier.req
    /\ req.entry = "create_rf_analysis_for_dashboard"
    /\ req.selected_subgroup = "Eco"
    /\ result.kind = "pair"
    /\ result.chart.kind = "figure"
    /\ result.chart.text = "rf_subgroup"
    /\ result = earlier.result
    /\ other.req.entry = "create_rf_analysis_for_dashboard"
    /\ other.req.selected_subgroup = "Business"
    /\ other.pc = "done"
    /\ other.feature_importance_results # <<>>

\* ------------------------------------------------------------------ C25

\* the step ends the running call in a failure: an exception, a placeholder
\* or an error pair
FailingStep ==
    /\ pc # "idle"
    /\ other' = other
    /\ pc' = "done"
    /\ result' # result
    /\ Failed(result')

\* the subgroup passes every check of train_rf_for_subgroup
Trainable(g) ==
    LET sub == filter_rows(df, g)
    IN sub.n >= MinSamplesSubgroupRF /\ y_unique(sub) = 2

====
